---------------------------- MODULE Spec2Model ----------------------------
(***************************************************************************)
(* State-machine model of contracts/PrivacyProfessionalCertificate.sol.    *)
(*                                                                         *)
(* One action per external, state-changing contract function; each action  *)
(* is one transaction.  A transaction that hits a failing require (or a    *)
(* checked-arithmetic overflow) reverts: the registry keeps its pre-state, *)
(* no event is logged, and the variable "result" holds "reverted".  The    *)
(* require chain of every function is an operator that yields "ok" or the  *)
(* message of the first failing require.  View functions are operators     *)
(* over the current state; they return [status, ret].                      *)
(***************************************************************************)
EXTENDS Integers, Sequences, FiniteSets, TLC

(***************************************************************************)
(* Bounds of the model                                                     *)
(***************************************************************************)
\* number of requests that may be submitted (caps nextRequestId)
MaxRequests == 2
\* days by which one certificate may be extended in total (caps expiryDate)
MaxExtendDays == 1
\* largest value of the unsigned word, scaled down from 2^256 - 1 so that
\* checked-arithmetic overflow is reachable within TLC's integers
UintMax == 1073741823
\* block.timestamp of the deployment block
StartTime == 1
\* number of handler invocations of the page that may be suspended at once
MaxTasks == 2
\* number of ids getHolderCertificates may return to the page
MaxListed == 1
\* requests submitted, and days added to one certificate, in the registry
\* explored with few requests
NarrowRequests == 1
NarrowExtendDays == 0

(***************************************************************************)
(* Program constants                                                       *)
(***************************************************************************)
\* Solidity time unit "1 days", in seconds
DAY == 86400
\* validity period of a certificate in days ("365 days")
ValidityDays == 365
\* require(_score <= 100)
MaxScore == 100
\* require(_level <= 10)
MaxLevel == 10

(***************************************************************************)
(* Identities and inputs                                                   *)
(***************************************************************************)
Deployer == "deployer"
Alice == "alice"
Bob == "bob"
Addresses == {Deployer, Alice, Bob}
\* address(0), the default value of an address slot
ZeroAddress == "0x0"
\* address(this), the registry itself
ThisContract == "registry"

\* (caller, profession, score, level, evidence) tuples offered to
\* requestCertification: submissions that pass validation ...
ValidSubmissions ==
    { <<Alice, "Software Engineer", 80, 4, "portfolio-link">>,
      <<Bob, "Data Scientist", 100, 0, "cv">> }
\* ... and submissions that break exactly one of its four requirements
Submissions ==
    ValidSubmissions
    \cup { <<Alice, "Software Engineer", 150, 4, "portfolio-link">>,
           <<Bob, "Software Engineer", 101, 4, "portfolio-link">>,
           <<Alice, "Software Engineer", 80, 11, "portfolio-link">>,
           <<Deployer, "", 80, 4, "portfolio-link">>,
           <<Bob, "Software Engineer", 80, 4, "">> }

IssuerNames == {"Acme Certifiers"}
Reasons == {"fraud"}
Organizations == {"Acme"}
\* identities offered as the argument of authorizeIssuer and revokeIssuer
IssuerInputs == {Deployer, Bob}
\* (profession, minScore, minLevel) tuples offered to setProfessionRequirements
RequirementInputs == { <<"Software Engineer", 90, 5>> }
\* profession labels that are read or written
Professions ==
    {"Software Engineer", "Data Scientist", "Cybersecurity Specialist",
     "Project Manager", "Chef"}

\* ids offered to the id-taking functions: 0, every id that can be assigned
\* and one beyond (the next unassigned id and, until the last one is assigned,
\* ids beyond it)
IdInputs == 0 .. (MaxRequests + 1)

\* largest day count whose product with DAY still fits the word: adding it
\* to any expiry date overflows
AddOverflowDays == UintMax \div DAY
\* smallest day count whose product with DAY overflows
MulOverflowDays == (UintMax \div DAY) + 1
AdditionalDays == {0, 1, AddOverflowDays, MulOverflowDays}

\* at offset ValidityDays a certificate issued in the deployment block has
\* reached its expiry date, unless it was extended before
\* values block.timestamp takes
Timestamps == { StartTime + d * DAY : d \in {0, ValidityDays} }

(***************************************************************************)
(* State                                                                   *)
(***************************************************************************)
VARIABLES
    owner,                    \* address public owner
    nextCertificateId,        \* uint256 public nextCertificateId
    nextRequestId,            \* uint256 public nextRequestId
    certificates,             \* mapping(uint256 => Certificate), written keys
    holderCertificates,       \* mapping(address => uint256[]), written keys
    certificationRequests,    \* mapping(uint256 => CertificationRequest)
    authorizedIssuers,        \* mapping(address => bool)
    minimumScoreRequirement,  \* mapping(string => uint256)
    minimumLevelRequirement,  \* mapping(string => uint8)
    acl,                      \* access list of the handles: <<handle, identity>>
    now,                      \* block.timestamp
    lastEvents,               \* events logged by the latest transaction
    result                    \* status of the latest transaction: "ok" | "reverted"

registry == << owner, nextCertificateId, nextRequestId, certificates,
               holderCertificates, certificationRequests, authorizedIssuers,
               minimumScoreRequirement, minimumLevelRequirement, acl >>

vars == << owner, nextCertificateId, nextRequestId, certificates,
           holderCertificates, certificationRequests, authorizedIssuers,
           minimumScoreRequirement, minimumLevelRequirement, acl, now,
           lastEvents, result >>

(***************************************************************************)
(* State of the page (frontend/src/App.tsx, component App)                 *)
(***************************************************************************)
VARIABLES
    walletState,      \* useState<WalletState>: isConnected, account, isAdmin
                      \* (network and balance are only displayed)
    contract,         \* useState<ethers.Contract | null>: "null" | "contract"
    loading,          \* useState<string>(''): the in-flight indicator
    error,            \* useState<string>(''): the error banner
    success,          \* useState<string>(''): the success banner
    requestForm,      \* profession, score, level, evidence: "" | "entered"
    adminForm,        \* requestId, issuerName: "" | "entered"
    verifiedCert,     \* useState<Certificate | null>: "null" | "cert"
    myCertificates,   \* useState<Certificate[]>([]): the entries listed
    tasks,            \* suspended handler invocations: how many wait where
    issued,           \* wallet requests and contract calls made by the latest step
    mountPending,     \* the page was (re)loaded and its mount effects have not run
    ethereum          \* window.ethereum: "undefined" | "metamask"

frontend == << walletState, contract, loading, error, success, requestForm,
               adminForm, verifiedCert, myCertificates, tasks, issued,
               mountPending, ethereum >>

allVars == << vars, frontend >>

(***************************************************************************)
(* Storage defaults and the external handle library                        *)
(***************************************************************************)
\* the zero handle, default value of a euint slot
ZeroHandle == <<"euint", -1>>
\* FHE.asEuint64: trivial encryption of a plaintext into a handle
asEuint64(v) == <<"euint64", v>>
\* FHE.asEuint8
asEuint8(v) == <<"euint8", v>>
\* FHE.allow / FHE.allowThis: add one identity to a handle's access list
allow(list, h, who) == list \cup { <<h, who>> }

ZeroCertificate ==
    [ holder |-> ZeroAddress, profession |-> "", encryptedScore |-> ZeroHandle,
      encryptedLevel |-> ZeroHandle, isValid |-> FALSE, issueDate |-> 0,
      expiryDate |-> 0, issuer |-> "", hashedCredentials |-> <<>> ]

ZeroRequest ==
    [ applicant |-> ZeroAddress, profession |-> "", encryptedScore |-> ZeroHandle,
      encryptedLevel |-> ZeroHandle, isProcessed |-> FALSE, isApproved |-> FALSE,
      requestTime |-> 0, evidence |-> "" ]

\* reading a mapping slot: the stored value, or the type's default
Lookup(m, k, default) == IF k \in DOMAIN m THEN m[k] ELSE default
\* writing a mapping slot
Store(m, k, v) == [ x \in (DOMAIN m) \cup {k} |-> IF x = k THEN v ELSE m[x] ]

cert(id) == Lookup(certificates, id, ZeroCertificate)
request(id) == Lookup(certificationRequests, id, ZeroRequest)
isIssuer(a) == Lookup(authorizedIssuers, a, FALSE)

\* keccak256(abi.encodePacked(holder, profession, timestamp, id)), kept symbolic
credentialHash(holder, profession, timestamp, id) ==
    <<holder, profession, timestamp, id>>

(***************************************************************************)
(* Modifiers: "ok" or the message of the first failing require             *)
(***************************************************************************)
\* variant: the owner guard also lets flagged issuers through
onlyOwner_OrIssuer(sender) ==
    IF sender = owner \/ isIssuer(sender) THEN "ok" ELSE "Not authorized"

onlyOwner(sender) ==
    IF sender = owner THEN "ok" ELSE "Not authorized"

\* variant: the issuer guard compares the caller with the owner the wrong way
onlyAuthorizedIssuer_NotOwner(sender) ==
    IF isIssuer(sender) \/ sender # owner THEN "ok" ELSE "Not authorized issuer"

\* variant: the issuer guard looks at the flag alone
onlyAuthorizedIssuer_FlagOnly(sender) ==
    IF isIssuer(sender) THEN "ok" ELSE "Not authorized issuer"

onlyAuthorizedIssuer(sender) ==
    IF isIssuer(sender) \/ sender = owner THEN "ok" ELSE "Not authorized issuer"

\* variant: a certificate still counts as unexpired at its expiry time
validCertificate_ExpiryInclusive(id) ==
    IF ~(id > 0 /\ id <= nextCertificateId) THEN "Invalid certificate ID"
    ELSE IF ~cert(id).isValid THEN "Certificate not valid"
    ELSE IF ~(cert(id).expiryDate >= now) THEN "Certificate expired"
    ELSE "ok"

validCertificate(id) ==
    IF ~(id > 0 /\ id <= nextCertificateId) THEN "Invalid certificate ID"
    ELSE IF ~cert(id).isValid THEN "Certificate not valid"
    ELSE IF ~(cert(id).expiryDate > now) THEN "Certificate expired"
    ELSE "ok"

\* a transaction that reverted: nothing of the registry changes, nothing is
\* logged (and no transaction touches the state of the page)
Revert ==
    /\ result' = "reverted"
    /\ lastEvents' = <<>>
    /\ UNCHANGED << registry, now, frontend >>

\* a transaction that went through
Success(events) ==
    /\ result' = "ok"
    /\ lastEvents' = events
    /\ UNCHANGED << now, frontend >>

(***************************************************************************)
(* Constructor                                                             *)
(***************************************************************************)
\* variant: the constructor leaves the owner slot at its default
Init_OwnerUnset ==
    /\ owner = ZeroAddress
    /\ nextCertificateId = 1
    /\ nextRequestId = 1
    /\ certificates = <<>>
    /\ holderCertificates = <<>>
    /\ certificationRequests = <<>>
    /\ authorizedIssuers = [ a \in Addresses |-> FALSE ]
    /\ minimumScoreRequirement =
          [ p \in Professions |->
              CASE p = "Software Engineer" -> 75
                [] p = "Data Scientist" -> 80
                [] p = "Cybersecurity Specialist" -> 85
                [] p = "Project Manager" -> 70
                [] OTHER -> 0 ]
    /\ minimumLevelRequirement =
          [ p \in Professions |->
              CASE p = "Software Engineer" -> 3
                [] p = "Data Scientist" -> 4
                [] p = "Cybersecurity Specialist" -> 4
                [] p = "Project Manager" -> 3
                [] OTHER -> 0 ]
    /\ acl = {}
    /\ now = StartTime
    /\ lastEvents = <<>>
    /\ result = "ok"

Init ==
    /\ owner = Deployer
    /\ nextCertificateId = 1
    /\ nextRequestId = 1
    /\ certificates = <<>>
    /\ holderCertificates = <<>>
    /\ certificationRequests = <<>>
    /\ authorizedIssuers = [ a \in Addresses |-> FALSE ]
    /\ minimumScoreRequirement =
          [ p \in Professions |->
              CASE p = "Software Engineer" -> 75
                [] p = "Data Scientist" -> 80
                [] p = "Cybersecurity Specialist" -> 85
                [] p = "Project Manager" -> 70
                [] OTHER -> 0 ]
    /\ minimumLevelRequirement =
          [ p \in Professions |->
              CASE p = "Software Engineer" -> 3
                [] p = "Data Scientist" -> 4
                [] p = "Cybersecurity Specialist" -> 4
                [] p = "Project Manager" -> 3
                [] OTHER -> 0 ]
    /\ acl = {}
    /\ now = StartTime
    /\ lastEvents = <<>>
    /\ result = "ok"

(***************************************************************************)
(* Owner-only administration                                               *)
(***************************************************************************)
\* variant: the IssuerAuthorized event is not emitted
authorizeIssuer_NoEvent(sender, issuer, organization) ==
    IF onlyOwner(sender) # "ok" THEN Revert
    ELSE /\ authorizedIssuers' = [authorizedIssuers EXCEPT ![issuer] = TRUE]
         /\ UNCHANGED << owner, nextCertificateId, nextRequestId, certificates,
                         holderCertificates, certificationRequests,
                         minimumScoreRequirement, minimumLevelRequirement, acl >>
         /\ Success(<<>>)

authorizeIssuer(sender, issuer, organization) ==
    IF onlyOwner(sender) # "ok" THEN Revert
    ELSE /\ authorizedIssuers' = [authorizedIssuers EXCEPT ![issuer] = TRUE]
         /\ UNCHANGED << owner, nextCertificateId, nextRequestId, certificates,
                         holderCertificates, certificationRequests,
                         minimumScoreRequirement, minimumLevelRequirement, acl >>
         /\ Success(<< <<"IssuerAuthorized", issuer, organization>> >>)

\* variant: revoking flips the flag instead of clearing it
revokeIssuer_Toggles(sender, issuer) ==
    IF onlyOwner(sender) # "ok" THEN Revert
    ELSE /\ authorizedIssuers' =
                [authorizedIssuers EXCEPT ![issuer] = ~authorizedIssuers[issuer]]
         /\ UNCHANGED << owner, nextCertificateId, nextRequestId, certificates,
                         holderCertificates, certificationRequests,
                         minimumScoreRequirement, minimumLevelRequirement, acl >>
         /\ Success(<< <<"IssuerRevoked", issuer>> >>)

revokeIssuer(sender, issuer) ==
    IF onlyOwner(sender) # "ok" THEN Revert
    ELSE /\ authorizedIssuers' = [authorizedIssuers EXCEPT ![issuer] = FALSE]
         /\ UNCHANGED << owner, nextCertificateId, nextRequestId, certificates,
                         holderCertificates, certificationRequests,
                         minimumScoreRequirement, minimumLevelRequirement, acl >>
         /\ Success(<< <<"IssuerRevoked", issuer>> >>)

\* variant: only the score table is written
setProfessionRequirements_ScoreOnly(sender, profession, minScore, minLevel) ==
    IF onlyOwner(sender) # "ok" THEN Revert
    ELSE /\ minimumScoreRequirement' =
                [minimumScoreRequirement EXCEPT ![profession] = minScore]
         /\ UNCHANGED << owner, nextCertificateId, nextRequestId, certificates,
                         holderCertificates, certificationRequests,
                         authorizedIssuers, minimumLevelRequirement, acl >>
         /\ Success(<<>>)

setProfessionRequirements(sender, profession, minScore, minLevel) ==
    IF onlyOwner(sender) # "ok" THEN Revert
    ELSE /\ minimumScoreRequirement' =
                [minimumScoreRequirement EXCEPT ![profession] = minScore]
         /\ minimumLevelRequirement' =
                [minimumLevelRequirement EXCEPT ![profession] = minLevel]
         /\ UNCHANGED << owner, nextCertificateId, nextRequestId, certificates,
                         holderCertificates, certificationRequests,
                         authorizedIssuers, acl >>
         /\ Success(<<>>)

\* variant: the pause invalidates every certificate
emergencyPause_InvalidatesAll(sender) ==
    IF onlyOwner(sender) # "ok" THEN Revert
    ELSE /\ certificates' =
                [ id \in DOMAIN certificates |->
                    [certificates[id] EXCEPT !.isValid = FALSE] ]
         /\ UNCHANGED << owner, nextCertificateId, nextRequestId,
                         holderCertificates, certificationRequests,
                         authorizedIssuers, minimumScoreRequirement,
                         minimumLevelRequirement, acl >>
         /\ Success(<<>>)

emergencyPause(sender) ==
    IF onlyOwner(sender) # "ok" THEN Revert
    ELSE /\ UNCHANGED registry
         /\ Success(<<>>)

(***************************************************************************)
(* Request lifecycle                                                       *)
(***************************************************************************)
\* variant: the evidence requirement is missing
requestValidation_NoEvidenceCheck(profession, score, level, evidence) ==
    IF ~(score <= MaxScore) THEN "Score must be between 0-100"
    ELSE IF ~(level <= MaxLevel) THEN "Level must be between 1-10"
    ELSE IF ~(Len(profession) > 0) THEN "Profession required"
    ELSE "ok"

\* variant: level 0 is refused, as the message of the level check words it
requestValidation_LevelFromOne(profession, score, level, evidence) ==
    IF ~(score <= MaxScore) THEN "Score must be between 0-100"
    ELSE IF ~(level >= 1 /\ level <= MaxLevel) THEN "Level must be between 1-10"
    ELSE IF ~(Len(profession) > 0) THEN "Profession required"
    ELSE IF ~(Len(evidence) > 0) THEN "Evidence required"
    ELSE "ok"

\* the require chain of requestCertification
requestValidation(profession, score, level, evidence) ==
    IF ~(score <= MaxScore) THEN "Score must be between 0-100"
    ELSE IF ~(level <= MaxLevel) THEN "Level must be between 1-10"
    ELSE IF ~(Len(profession) > 0) THEN "Profession required"
    ELSE IF ~(Len(evidence) > 0) THEN "Evidence required"
    ELSE "ok"

\* variant: the request counter is not advanced
requestCertification_NoIncrement(sender, profession, score, level, evidence) ==
    LET encryptedScore == asEuint64(score)
        encryptedLevel == asEuint8(level)
    IN  IF ~(score <= MaxScore /\ level <= MaxLevel /\ Len(profession) > 0
             /\ Len(evidence) > 0) THEN Revert
        ELSE /\ nextRequestId <= MaxRequests
             /\ certificationRequests' =
                    Store(certificationRequests, nextRequestId,
                          [ applicant |-> sender, profession |-> profession,
                            encryptedScore |-> encryptedScore,
                            encryptedLevel |-> encryptedLevel,
                            isProcessed |-> FALSE, isApproved |-> FALSE,
                            requestTime |-> now, evidence |-> evidence ])
             /\ acl' = allow(allow(allow(allow(acl,
                                encryptedScore, ThisContract),
                                encryptedLevel, ThisContract),
                                encryptedScore, sender),
                                encryptedLevel, sender)
             /\ UNCHANGED << owner, nextCertificateId, nextRequestId, certificates,
                             holderCertificates, authorizedIssuers,
                             minimumScoreRequirement, minimumLevelRequirement >>
             /\ Success(<< <<"CertificationRequested", nextRequestId, sender,
                             profession>> >>)

\* variant: the registry is not put on the access lists of the new handles
requestCertification_NoAllowThis(sender, profession, score, level, evidence) ==
    LET encryptedScore == asEuint64(score)
        encryptedLevel == asEuint8(level)
    IN  IF requestValidation(profession, score, level, evidence) # "ok" THEN Revert
        ELSE /\ nextRequestId <= MaxRequests
             /\ certificationRequests' =
                    Store(certificationRequests, nextRequestId,
                          [ applicant |-> sender, profession |-> profession,
                            encryptedScore |-> encryptedScore,
                            encryptedLevel |-> encryptedLevel,
                            isProcessed |-> FALSE, isApproved |-> FALSE,
                            requestTime |-> now, evidence |-> evidence ])
             /\ acl' = allow(allow(acl, encryptedScore, sender),
                             encryptedLevel, sender)
             /\ nextRequestId' = nextRequestId + 1
             /\ UNCHANGED << owner, nextCertificateId, certificates,
                             holderCertificates, authorizedIssuers,
                             minimumScoreRequirement, minimumLevelRequirement >>
             /\ Success(<< <<"CertificationRequested", nextRequestId, sender,
                             profession>> >>)

requestCertification(sender, profession, score, level, evidence) ==
    LET encryptedScore == asEuint64(score)
        encryptedLevel == asEuint8(level)
    IN  IF requestValidation(profession, score, level, evidence) # "ok" THEN Revert
        ELSE /\ nextRequestId <= MaxRequests
             /\ certificationRequests' =
                    Store(certificationRequests, nextRequestId,
                          [ applicant |-> sender, profession |-> profession,
                            encryptedScore |-> encryptedScore,
                            encryptedLevel |-> encryptedLevel,
                            isProcessed |-> FALSE, isApproved |-> FALSE,
                            requestTime |-> now, evidence |-> evidence ])
             /\ acl' = allow(allow(allow(allow(acl,
                                encryptedScore, ThisContract),
                                encryptedLevel, ThisContract),
                                encryptedScore, sender),
                                encryptedLevel, sender)
             /\ nextRequestId' = nextRequestId + 1
             /\ UNCHANGED << owner, nextCertificateId, certificates,
                             holderCertificates, authorizedIssuers,
                             minimumScoreRequirement, minimumLevelRequirement >>
             /\ Success(<< <<"CertificationRequested", nextRequestId, sender,
                             profession>> >>)

\* variant: the "already processed" requirement is missing
processGuard_NoProcessedCheck(sender, requestId) ==
    IF onlyAuthorizedIssuer(sender) # "ok" THEN onlyAuthorizedIssuer(sender)
    ELSE IF ~(requestId > 0 /\ requestId < nextRequestId) THEN "Invalid request ID"
    ELSE "ok"

\* variant: the id range check admits the next, not yet assigned request id
processGuard_IdInclusive(sender, requestId) ==
    IF onlyAuthorizedIssuer(sender) # "ok" THEN onlyAuthorizedIssuer(sender)
    ELSE IF ~(requestId > 0 /\ requestId <= nextRequestId) THEN "Invalid request ID"
    ELSE IF ~(~request(requestId).isProcessed) THEN "Request already processed"
    ELSE "ok"

\* variant: a request can be processed only after all requests before it
processGuard_InOrder(sender, requestId) ==
    IF onlyAuthorizedIssuer(sender) # "ok" THEN onlyAuthorizedIssuer(sender)
    ELSE IF ~(requestId > 0 /\ requestId < nextRequestId) THEN "Invalid request ID"
    ELSE IF ~(~request(requestId).isProcessed) THEN "Request already processed"
    ELSE IF \E r \in 1 .. (requestId - 1) : ~request(r).isProcessed
      THEN "Earlier request pending"
    ELSE "ok"

\* the modifier and the require chain of processCertificationRequest
processGuard(sender, requestId) ==
    IF onlyAuthorizedIssuer(sender) # "ok" THEN onlyAuthorizedIssuer(sender)
    ELSE IF ~(requestId > 0 /\ requestId < nextRequestId) THEN "Invalid request ID"
    ELSE IF ~(~request(requestId).isProcessed) THEN "Request already processed"
    ELSE "ok"

\* variant: a request is approved only if it meets the minimum requirements
approvalDecision_MeetsRequirements(req) ==
    /\ req.encryptedScore[2] >= Lookup(minimumScoreRequirement, req.profession, 0)
    /\ req.encryptedLevel[2] >= Lookup(minimumLevelRequirement, req.profession, 0)

\* the approval decision of processCertificationRequest ("request.isApproved = true")
approvalDecision(req) == TRUE

\* variant: the new id is not pushed onto the holder's list
issueCertificate_NoPush(holder, profession, encryptedScore, encryptedLevel, issuer) ==
    [ certificates |->
          Store(certificates, nextCertificateId,
                [ holder |-> holder, profession |-> profession,
                  encryptedScore |-> encryptedScore,
                  encryptedLevel |-> encryptedLevel,
                  isValid |-> TRUE, issueDate |-> now,
                  expiryDate |-> now + ValidityDays * DAY,
                  issuer |-> issuer,
                  hashedCredentials |->
                      credentialHash(holder, profession, now, nextCertificateId) ]),
      holderCertificates |-> holderCertificates,
      acl |-> allow(allow(acl, encryptedScore, holder), encryptedLevel, holder),
      events |-> << <<"CertificateIssued", nextCertificateId, holder, profession>> >>,
      nextCertificateId |-> nextCertificateId + 1 ]

\* variant: the certificate counter is not advanced, so ids are reused
issueCertificate_ReusesId(holder, profession, encryptedScore, encryptedLevel, issuer) ==
    [ certificates |->
          Store(certificates, nextCertificateId,
                [ holder |-> holder, profession |-> profession,
                  encryptedScore |-> encryptedScore,
                  encryptedLevel |-> encryptedLevel,
                  isValid |-> TRUE, issueDate |-> now,
                  expiryDate |-> now + ValidityDays * DAY,
                  issuer |-> issuer,
                  hashedCredentials |->
                      credentialHash(holder, profession, now, nextCertificateId) ]),
      holderCertificates |->
          Store(holderCertificates, holder,
                Append(Lookup(holderCertificates, holder, <<>>), nextCertificateId)),
      acl |-> allow(allow(acl, encryptedScore, holder), encryptedLevel, holder),
      events |-> << <<"CertificateIssued", nextCertificateId, holder, profession>> >>,
      nextCertificateId |-> nextCertificateId ]

\* variant: the validity period is added in seconds, not in days
issueCertificate_ExpiryInSeconds(holder, profession, encryptedScore, encryptedLevel, issuer) ==
    [ certificates |->
          Store(certificates, nextCertificateId,
                [ holder |-> holder, profession |-> profession,
                  encryptedScore |-> encryptedScore,
                  encryptedLevel |-> encryptedLevel,
                  isValid |-> TRUE, issueDate |-> now,
                  expiryDate |-> now + ValidityDays,
                  issuer |-> issuer,
                  hashedCredentials |->
                      credentialHash(holder, profession, now, nextCertificateId) ]),
      holderCertificates |->
          Store(holderCertificates, holder,
                Append(Lookup(holderCertificates, holder, <<>>), nextCertificateId)),
      acl |-> allow(allow(acl, encryptedScore, holder), encryptedLevel, holder),
      events |-> << <<"CertificateIssued", nextCertificateId, holder, profession>> >>,
      nextCertificateId |-> nextCertificateId + 1 ]

\* _issueCertificate: the certificate store, the holder lists, the access
\* lists, the id counter and the logged event after minting one certificate
issueCertificate(holder, profession, encryptedScore, encryptedLevel, issuer) ==
    [ certificates |->
          Store(certificates, nextCertificateId,
                [ holder |-> holder, profession |-> profession,
                  encryptedScore |-> encryptedScore,
                  encryptedLevel |-> encryptedLevel,
                  isValid |-> TRUE, issueDate |-> now,
                  expiryDate |-> now + ValidityDays * DAY,
                  issuer |-> issuer,
                  hashedCredentials |->
                      credentialHash(holder, profession, now, nextCertificateId) ]),
      holderCertificates |->
          Store(holderCertificates, holder,
                Append(Lookup(holderCertificates, holder, <<>>), nextCertificateId)),
      acl |-> allow(allow(acl, encryptedScore, holder), encryptedLevel, holder),
      events |-> << <<"CertificateIssued", nextCertificateId, holder, profession>> >>,
      nextCertificateId |-> nextCertificateId + 1 ]

\* variant: processing also overwrites the time stamp of the request
processCertificationRequest_StampsRequest(sender, requestId, issuerName) ==
    LET req == request(requestId)
        processed == [req EXCEPT !.isProcessed = TRUE,
                                 !.isApproved = approvalDecision(req),
                                 !.requestTime = now]
        minted == issueCertificate(processed.applicant, processed.profession,
                                   processed.encryptedScore,
                                   processed.encryptedLevel, issuerName)
    IN  IF processGuard(sender, requestId) # "ok" THEN Revert
        ELSE /\ certificationRequests' =
                    Store(certificationRequests, requestId, processed)
             /\ IF processed.isApproved
                  THEN /\ certificates' = minted.certificates
                       /\ holderCertificates' = minted.holderCertificates
                       /\ acl' = minted.acl
                       /\ nextCertificateId' = minted.nextCertificateId
                       /\ Success(minted.events \o
                                  << <<"CertificationApproved", requestId,
                                       minted.nextCertificateId - 1>> >>)
                  ELSE /\ UNCHANGED << certificates, holderCertificates, acl,
                                       nextCertificateId >>
                       /\ Success(<< <<"CertificationRejected", requestId,
                                       "Requirements not met">> >>)
             /\ UNCHANGED << owner, nextRequestId, authorizedIssuers,
                             minimumScoreRequirement, minimumLevelRequirement >>

\* variant: the approval event carries the counter after the increment
processCertificationRequest_EventOffByOne(sender, requestId, issuerName) ==
    LET req == request(requestId)
        processed == [req EXCEPT !.isProcessed = TRUE,
                                 !.isApproved = approvalDecision(req)]
        minted == issueCertificate(processed.applicant, processed.profession,
                                   processed.encryptedScore,
                                   processed.encryptedLevel, issuerName)
    IN  IF processGuard(sender, requestId) # "ok" THEN Revert
        ELSE /\ certificationRequests' =
                    Store(certificationRequests, requestId, processed)
             /\ IF processed.isApproved
                  THEN /\ certificates' = minted.certificates
                       /\ holderCertificates' = minted.holderCertificates
                       /\ acl' = minted.acl
                       /\ nextCertificateId' = minted.nextCertificateId
                       /\ Success(minted.events \o
                                  << <<"CertificationApproved", requestId,
                                       minted.nextCertificateId>> >>)
                  ELSE /\ UNCHANGED << certificates, holderCertificates, acl,
                                       nextCertificateId >>
                       /\ Success(<< <<"CertificationRejected", requestId,
                                       "Requirements not met">> >>)
             /\ UNCHANGED << owner, nextRequestId, authorizedIssuers,
                             minimumScoreRequirement, minimumLevelRequirement >>

\* variant: the certificate goes to the issuer who processed the request
processCertificationRequest_HolderIsSender(sender, requestId, issuerName) ==
    LET req == request(requestId)
        processed == [req EXCEPT !.isProcessed = TRUE,
                                 !.isApproved = approvalDecision(req)]
        minted == issueCertificate(sender, processed.profession,
                                   processed.encryptedScore,
                                   processed.encryptedLevel, issuerName)
    IN  IF processGuard(sender, requestId) # "ok" THEN Revert
        ELSE /\ certificationRequests' =
                    Store(certificationRequests, requestId, processed)
             /\ IF processed.isApproved
                  THEN /\ certificates' = minted.certificates
                       /\ holderCertificates' = minted.holderCertificates
                       /\ acl' = minted.acl
                       /\ nextCertificateId' = minted.nextCertificateId
                       /\ Success(minted.events \o
                                  << <<"CertificationApproved", requestId,
                                       minted.nextCertificateId - 1>> >>)
                  ELSE /\ UNCHANGED << certificates, holderCertificates, acl,
                                       nextCertificateId >>
                       /\ Success(<< <<"CertificationRejected", requestId,
                                       "Requirements not met">> >>)
             /\ UNCHANGED << owner, nextRequestId, authorizedIssuers,
                             minimumScoreRequirement, minimumLevelRequirement >>

processCertificationRequest(sender, requestId, issuerName) ==
    LET req == request(requestId)
        processed == [req EXCEPT !.isProcessed = TRUE,
                                 !.isApproved = approvalDecision(req)]
        minted == issueCertificate(processed.applicant, processed.profession,
                                   processed.encryptedScore,
                                   processed.encryptedLevel, issuerName)
    IN  IF processGuard(sender, requestId) # "ok" THEN Revert
        ELSE /\ certificationRequests' =
                    Store(certificationRequests, requestId, processed)
             /\ IF processed.isApproved
                  THEN /\ certificates' = minted.certificates
                       /\ holderCertificates' = minted.holderCertificates
                       /\ acl' = minted.acl
                       /\ nextCertificateId' = minted.nextCertificateId
                       /\ Success(minted.events \o
                                  << <<"CertificationApproved", requestId,
                                       minted.nextCertificateId - 1>> >>)
                  ELSE /\ UNCHANGED << certificates, holderCertificates, acl,
                                       nextCertificateId >>
                       /\ Success(<< <<"CertificationRejected", requestId,
                                       "Requirements not met">> >>)
             /\ UNCHANGED << owner, nextRequestId, authorizedIssuers,
                             minimumScoreRequirement, minimumLevelRequirement >>

(***************************************************************************)
(* Revocation and validity extension                                       *)
(***************************************************************************)
\* variant: the validCertificate modifier is missing
revokeGuard_NoValidCheck(sender, certificateId) ==
    onlyAuthorizedIssuer(sender)

\* the modifiers of revokeCertificate, in their order
revokeGuard(sender, certificateId) ==
    IF onlyAuthorizedIssuer(sender) # "ok" THEN onlyAuthorizedIssuer(sender)
    ELSE validCertificate(certificateId)

\* variant: a revoked certificate is also taken off its holder's list
revokeCertificate_RemovesFromList(sender, certificateId, reason) ==
    LET holder == cert(certificateId).holder
        list == Lookup(holderCertificates, holder, <<>>)
    IN  IF revokeGuard(sender, certificateId) # "ok" THEN Revert
        ELSE /\ certificates' =
                    Store(certificates, certificateId,
                          [cert(certificateId) EXCEPT !.isValid = FALSE])
             /\ holderCertificates' =
                    Store(holderCertificates, holder,
                          SelectSeq(list, LAMBDA x : x # certificateId))
             /\ UNCHANGED << owner, nextCertificateId, nextRequestId,
                             certificationRequests, authorizedIssuers,
                             minimumScoreRequirement, minimumLevelRequirement,
                             acl >>
             /\ Success(<< <<"CertificateRevoked", certificateId, reason>> >>)

revokeCertificate(sender, certificateId, reason) ==
    IF revokeGuard(sender, certificateId) # "ok" THEN Revert
    ELSE /\ certificates' =
                Store(certificates, certificateId,
                      [cert(certificateId) EXCEPT !.isValid = FALSE])
         /\ UNCHANGED << owner, nextCertificateId, nextRequestId,
                         holderCertificates, certificationRequests,
                         authorizedIssuers, minimumScoreRequirement,
                         minimumLevelRequirement, acl >>
         /\ Success(<< <<"CertificateRevoked", certificateId, reason>> >>)

\* checked unsigned arithmetic: a result beyond the word panics
mulOverflows(a, b) == b # 0 /\ a > UintMax \div b
addOverflows(a, b) == a > UintMax - b

\* variant: an expired certificate may still be extended (the expiry
\* requirement of the modifier is skipped)
extendGuard_NoExpiryCheck(sender, certificateId, additionalDays) ==
    IF onlyAuthorizedIssuer(sender) # "ok" THEN onlyAuthorizedIssuer(sender)
    ELSE IF ~(certificateId > 0 /\ certificateId <= nextCertificateId)
      THEN "Invalid certificate ID"
    ELSE IF ~cert(certificateId).isValid THEN "Certificate not valid"
    ELSE IF mulOverflows(additionalDays, DAY) THEN "Panic(0x11)"
    ELSE IF addOverflows(cert(certificateId).expiryDate, additionalDays * DAY)
      THEN "Panic(0x11)"
    ELSE "ok"

\* the modifiers of extendCertificateValidity, then the checked arithmetic of
\* "expiryDate += _additionalDays * 1 days"
extendGuard(sender, certificateId, additionalDays) ==
    IF onlyAuthorizedIssuer(sender) # "ok" THEN onlyAuthorizedIssuer(sender)
    ELSE IF validCertificate(certificateId) # "ok"
      THEN validCertificate(certificateId)
    ELSE IF mulOverflows(additionalDays, DAY) THEN "Panic(0x11)"
    ELSE IF addOverflows(cert(certificateId).expiryDate, additionalDays * DAY)
      THEN "Panic(0x11)"
    ELSE "ok"

\* variant: the arithmetic is unchecked and wraps around the word
extendCertificateValidity_Unchecked(sender, certificateId, additionalDays) ==
    LET old == cert(certificateId)
        wrapped == (old.expiryDate + additionalDays * DAY) % (UintMax + 1)
    IN  IF revokeGuard(sender, certificateId) # "ok" THEN Revert
        ELSE /\ wrapped <= old.issueDate + (ValidityDays + MaxExtendDays) * DAY
             /\ certificates' =
                    Store(certificates, certificateId,
                          [old EXCEPT !.expiryDate = wrapped])
             /\ UNCHANGED << owner, nextCertificateId, nextRequestId,
                             holderCertificates, certificationRequests,
                             authorizedIssuers, minimumScoreRequirement,
                             minimumLevelRequirement, acl >>
             /\ Success(<<>>)

\* variant: the new expiry is counted from the current time, not from the old expiry
extendCertificateValidity_FromNow(sender, certificateId, additionalDays) ==
    LET old == cert(certificateId)
    IN  IF extendGuard(sender, certificateId, additionalDays) # "ok" THEN Revert
        ELSE /\ now + additionalDays * DAY
                  <= old.issueDate + (ValidityDays + MaxExtendDays) * DAY
             /\ certificates' =
                    Store(certificates, certificateId,
                          [old EXCEPT !.expiryDate = now + additionalDays * DAY])
             /\ UNCHANGED << owner, nextCertificateId, nextRequestId,
                             holderCertificates, certificationRequests,
                             authorizedIssuers, minimumScoreRequirement,
                             minimumLevelRequirement, acl >>
             /\ Success(<<>>)

\* variant: the day count is assigned to the expiry date instead of added
extendCertificateValidity_Assigns(sender, certificateId, additionalDays) ==
    LET old == cert(certificateId)
    IN  IF extendGuard(sender, certificateId, additionalDays) # "ok" THEN Revert
        ELSE /\ additionalDays * DAY
                  <= old.issueDate + (ValidityDays + MaxExtendDays) * DAY
             /\ certificates' =
                    Store(certificates, certificateId,
                          [old EXCEPT !.expiryDate = additionalDays * DAY])
             /\ UNCHANGED << owner, nextCertificateId, nextRequestId,
                             holderCertificates, certificationRequests,
                             authorizedIssuers, minimumScoreRequirement,
                             minimumLevelRequirement, acl >>
             /\ Success(<<>>)

extendCertificateValidity(sender, certificateId, additionalDays) ==
    LET old == cert(certificateId)
    IN  IF extendGuard(sender, certificateId, additionalDays) # "ok" THEN Revert
        ELSE /\ old.expiryDate + additionalDays * DAY
                  <= old.issueDate + (ValidityDays + MaxExtendDays) * DAY
             /\ certificates' =
                    Store(certificates, certificateId,
                          [old EXCEPT !.expiryDate =
                                          old.expiryDate + additionalDays * DAY])
             /\ UNCHANGED << owner, nextCertificateId, nextRequestId,
                             holderCertificates, certificationRequests,
                             authorizedIssuers, minimumScoreRequirement,
                             minimumLevelRequirement, acl >>
             /\ Success(<<>>)

(***************************************************************************)
(* View functions: [status, ret] for a call in the current state           *)
(***************************************************************************)
Returned(ret) == [status |-> "ok", ret |-> ret]
Failed(why) == [status |-> why, ret |-> <<>>]

verifyCertificate(certificateId) ==
    LET valid == validCertificate(certificateId)
        c == cert(certificateId)
    IN  IF valid # "ok" THEN Failed(valid)
        ELSE Returned(<< c.holder, c.profession, c.isValid, c.issueDate,
                         c.expiryDate, c.issuer, c.hashedCredentials >>)

getHolderCertificates(holder) == Lookup(holderCertificates, holder, <<>>)

getCertificateCount == nextCertificateId - 1

getRequestCount == nextRequestId - 1

getProfessionRequirements(profession) ==
    << Lookup(minimumScoreRequirement, profession, 0),
       Lookup(minimumLevelRequirement, profession, 0) >>

getEncryptedScore(sender, certificateId) ==
    LET valid == validCertificate(certificateId)
    IN  IF valid # "ok" THEN Failed(valid)
        ELSE IF ~( \/ sender = cert(certificateId).holder
                   \/ isIssuer(sender)
                   \/ sender = owner )
          THEN Failed("Not authorized to view score")
        ELSE Returned(<< cert(certificateId).encryptedScore >>)

\* variant: the caller requirement is missing
getEncryptedLevel_NoCallerCheck(sender, certificateId) ==
    LET valid == validCertificate(certificateId)
    IN  IF valid # "ok" THEN [status |-> valid, ret |-> <<>>]
        ELSE [status |-> "ok", ret |-> << cert(certificateId).encryptedLevel >>]

getEncryptedLevel(sender, certificateId) ==
    LET valid == validCertificate(certificateId)
    IN  IF valid # "ok" THEN Failed(valid)
        ELSE IF ~( \/ sender = cert(certificateId).holder
                   \/ isIssuer(sender)
                   \/ sender = owner )
          THEN Failed("Not authorized to view level")
        ELSE Returned(<< cert(certificateId).encryptedLevel >>)

(***************************************************************************)
(* The chain: blocks carry a timestamp that never decreases                *)
(***************************************************************************)
AdvanceTime ==
    /\ \E t \in Timestamps : t > now /\ now' = t
    /\ UNCHANGED << registry, lastEvents, result, frontend >>

RequestCertification ==
    \E sub \in Submissions :
        requestCertification(sub[1], sub[2], sub[3], sub[4], sub[5])

ProcessCertificationRequest ==
    \E sender \in Addresses, id \in IdInputs, name \in IssuerNames :
        processCertificationRequest(sender, id, name)

RevokeCertificate ==
    \E sender \in Addresses, id \in IdInputs, reason \in Reasons :
        revokeCertificate(sender, id, reason)

ExtendCertificateValidity ==
    \E sender \in Addresses, id \in IdInputs, d \in AdditionalDays :
        extendCertificateValidity(sender, id, d)

AuthorizeIssuer ==
    \E sender \in Addresses, issuer \in IssuerInputs, org \in Organizations :
        authorizeIssuer(sender, issuer, org)

RevokeIssuer ==
    \E sender \in Addresses, issuer \in IssuerInputs :
        revokeIssuer(sender, issuer)

SetProfessionRequirements ==
    \E sender \in Addresses, r \in RequirementInputs :
        setProfessionRequirements(sender, r[1], r[2], r[3])

EmergencyPause ==
    \E sender \in Addresses : emergencyPause(sender)

Next ==
    \/ RequestCertification
    \/ ProcessCertificationRequest
    \/ RevokeCertificate
    \/ ExtendCertificateValidity
    \/ AuthorizeIssuer
    \/ RevokeIssuer
    \/ SetProfessionRequirements
    \/ EmergencyPause
    \/ AdvanceTime

(***************************************************************************)
(* The page: frontend/src/App.tsx.  Every handler is an async function: it *)
(* runs up to its next await in one step and is then a task suspended at   *)
(* that await, until the awaited promise is fulfilled or rejected.  Tasks  *)
(* of several handlers (and of the same handler) may be suspended at the   *)
(* same time.  A control of the page can be used only while it is rendered *)
(* and not disabled.                                                       *)
(***************************************************************************)
\* error code of the wallet for a chain it does not know
UnrecognizedChain == 4902
\* SEPOLIA_CHAIN_ID and a chain id that differs from it
SEPOLIA_CHAIN_ID == "0xaa36a7"
ChainIds == {SEPOLIA_CHAIN_ID, "0x1"}
\* the chain id connectWallet compares network.chainId with, and the chain
\* ids getNetwork may report
Sepolia == 11155111
NetworkIds == {Sepolia, 1}
\* error codes of a rejected wallet_switchEthereumChain request
ErrorCodes == {UnrecognizedChain, UnrecognizedChain + 1}
\* account lists delivered with accountsChanged
\* the account of the wallet is one of the addresses the registry knows
AccountLists == { <<>>, <<Alice>> }
\* error.message of a rejected promise
Messages == {"user rejected"}

\* texts of the banners
MetaMaskNotFound == "MetaMask not found. Please install MetaMask to continue."
PleaseConnect == "Please connect your wallet first"
PleaseSwitch == "Please switch to Sepolia testnet"
ErrorLoading == "Error loading certificates"
RequestFailed(m) == "Request failed: " \o m
VerificationFailed(m) == "Verification failed: " \o m
ProcessingFailed(m) == "Processing failed: " \o m
Connected == "Successfully connected to Sepolia testnet!"
RequestSubmitted == "Certification request submitted successfully!"
CertificateVerified == "Certificate verified successfully!"
RequestProcessed == "Request processed successfully!"

\* the functions of the contract the page calls (CONTRACT_ABI)
WriteCalls == {"requestCertification", "processCertificationRequest"}

\* the id lists a holder list can be: certificate ids in the order the
\* registry appends them (_issueCertificate pushes ids that only grow)
IdLists ==
    LET most == IF MaxListed > MaxRequests THEN MaxListed ELSE MaxRequests
    IN  { ids \in UNION { [ 1 .. n -> 1 .. most ] : n \in 0 .. most } :
            \A i, j \in DOMAIN ids : i < j => ids[i] < ids[j] }
\* the values "certs" can have while the loop is at id: one entry for each
\* of some smaller ids, with the id and the isValid field of the answer (the
\* other fields of the answer are copied the same way)
CertsBefore(id) ==
    UNION { { [ i \in DOMAIN ids |-> [id |-> ids[i], isValid |-> valid[i]] ] :
                valid \in [ DOMAIN ids -> BOOLEAN ] } :
            ids \in { l \in IdLists : \A i \in DOMAIN l : l[i] < id } }
\* where a task is suspended: <<action, awaited call, ids left, entries got>>
At(kind, pc) == <<kind, pc, <<>>, <<>>>>
\* loadMyCertificates inside its loop, awaiting verifyCertificate(id)
InLoop(left, got) == <<"certificates", "verifyCertificate", left, got>>
\* the awaits of each handler outside a loop, in the order of the code
Awaits ==
    [ connection |-> << "eth_requestAccounts", "getSigner", "getAddress",
                        "getNetwork", "wallet_switchEthereumChain",
                        "wallet_addEthereumChain", "getBalance",
                        "authorizedIssuers", "owner" >>,
      request |-> << "requestCertification", "wait" >>,
      admin |-> << "processCertificationRequest", "wait" >>,
      verify |-> << "verifyCertificate" >>,
      certificates |-> << "getHolderCertificates" >> ]
LoopPositions ==
    UNION { { InLoop(left, got) : got \in CertsBefore(Head(left)) } :
            left \in IdLists \ {<<>>} }
RECURSIVE Enumerated(_)
Enumerated(S) ==
    IF S = {} THEN <<>>
    ELSE LET x == CHOOSE y \in S : TRUE IN <<x>> \o Enumerated(S \ {x})
LoopSequence == Enumerated(LoopPositions)
Positions ==
    { At("connection", Awaits.connection[i]) : i \in DOMAIN Awaits.connection }
    \cup { At("request", "requestCertification"), At("request", "wait"),
           At("admin", "processCertificationRequest"), At("admin", "wait"),
           At("verify", "verifyCertificate"),
           At("certificates", "getHolderCertificates") }
    \cup LoopPositions

NoTasks == [ p \in Positions |-> 0 ]
\* the number of tasks suspended at the first n awaits of a handler, at the
\* first n positions inside the loop of loadMyCertificates, of one handler,
\* and of all handlers
RECURSIVE AtAwaits(_, _)
AtAwaits(kind, n) ==
    IF n = 0 THEN 0 ELSE tasks[At(kind, Awaits[kind][n])] + AtAwaits(kind, n - 1)
RECURSIVE AtLoop(_)
AtLoop(n) ==
    IF n = 0 THEN 0 ELSE tasks[LoopSequence[n]] + AtLoop(n - 1)
SuspendedOf(kind) ==
    AtAwaits(kind, Len(Awaits[kind]))
        + (IF kind = "certificates" THEN AtLoop(Len(LoopSequence)) ELSE 0)
Suspended ==
    SuspendedOf("connection") + SuspendedOf("request") + SuspendedOf("admin")
        + SuspendedOf("verify") + SuspendedOf("certificates")

\* a handler reaches its first await / goes on to its next await / returns
Suspend(p) == [tasks EXCEPT ![p] = @ + 1]
Resume(p, q) == [tasks EXCEPT ![p] = @ - 1, ![q] = @ + 1]
Return(p) == [tasks EXCEPT ![p] = @ - 1]

\* the JSX: which controls are rendered, and which of them are not disabled
rendered(kind) ==
    CASE kind = "connection" -> ~walletState.isConnected
      [] kind = "admin" -> walletState.isConnected /\ walletState.isAdmin
      [] OTHER -> walletState.isConnected
enabled(kind) == rendered(kind) /\ loading # kind

\* the state a (re)loaded page starts in: the useState defaults
Loaded ==
    /\ walletState = [isConnected |-> FALSE, account |-> "", isAdmin |-> FALSE]
    /\ contract = "null"
    /\ loading = ""
    /\ error = ""
    /\ success = ""
    /\ requestForm = ""
    /\ adminForm = ""
    /\ verifiedCert = "null"
    /\ myCertificates = <<>>
    /\ tasks = NoTasks
    /\ issued = <<>>
    /\ mountPending = TRUE

\* what every step of the page leaves alone: the registry, and the wallet
\* extension of the browser
Page == UNCHANGED << vars, ethereum >>
\* a handler or a continuation runs on the mounted page
Mounted == ~mountPending /\ UNCHANGED mountPending /\ Page

(***************************************************************************)
(* connectWallet and switchToSepolia                                       *)
(***************************************************************************)
\* connectWallet up to "await window.ethereum.request(eth_requestAccounts)"
connectWallet ==
    IF ethereum = "undefined"
      THEN /\ loading' = ""
           /\ error' = MetaMaskNotFound
           /\ success' = ""
           /\ walletState' = [walletState EXCEPT !.isConnected = FALSE]
           /\ issued' = <<>>
           /\ UNCHANGED << contract, requestForm, adminForm, verifiedCert,
                           myCertificates, tasks >>
      ELSE /\ Suspended < MaxTasks
           /\ loading' = "connection"
           /\ error' = ""
           /\ success' = ""
           /\ tasks' = Suspend(At("connection", "eth_requestAccounts"))
           /\ issued' = <<"eth_requestAccounts">>
           /\ UNCHANGED << walletState, contract, requestForm, adminForm,
                           verifiedCert, myCertificates >>

\* the mount effect: checkWalletConnection
checkWalletConnection(selectedAddress) ==
    /\ mountPending
    /\ mountPending' = FALSE
    /\ Page
    /\ IF ethereum # "undefined" /\ selectedAddress
         THEN connectWallet
         ELSE UNCHANGED << walletState, contract, loading, error, success,
                           requestForm, adminForm, verifiedCert,
                           myCertificates, tasks, issued >>

\* catch and finally of connectWallet
connectionFailed(p, m) ==
    /\ tasks' = Return(p)
    /\ error' = m
    /\ walletState' = [walletState EXCEPT !.isConnected = FALSE]
    /\ loading' = ""
    /\ issued' = <<>>
    /\ UNCHANGED << contract, success, requestForm, adminForm, verifiedCert,
                    myCertificates >>

\* connectWallet goes on to its next await, which issues the calls in "calls"
connectionContinues(p, q, calls) ==
    /\ tasks' = Resume(p, q)
    /\ issued' = calls
    /\ UNCHANGED << walletState, contract, loading, error, success,
                    requestForm, adminForm, verifiedCert, myCertificates >>

\* steps 5 and 6 of connectWallet after checkAdminStatus returned isAdmin,
\* and its finally
connectionSucceeds(p, isAdmin) ==
    /\ tasks' = Return(p)
    /\ contract' = "contract"
    /\ walletState' = [isConnected |-> TRUE, account |-> Alice,
                       isAdmin |-> isAdmin]
    /\ success' = Connected
    /\ loading' = ""
    /\ issued' = <<>>
    /\ UNCHANGED << error, requestForm, adminForm, verifiedCert,
                    myCertificates >>

\* "await window.ethereum.request({ method: 'eth_requestAccounts' })" settles
requestAccounts(ok, m) ==
    LET p == At("connection", "eth_requestAccounts")
    IN  /\ Mounted
        /\ tasks[p] > 0
        /\ IF ok THEN connectionContinues(p, At("connection", "getSigner"), <<>>)
                 ELSE connectionFailed(p, m)

\* "await newProvider.getSigner()" settles
getSigner(ok, m) ==
    LET p == At("connection", "getSigner")
    IN  /\ Mounted
        /\ tasks[p] > 0
        /\ IF ok THEN connectionContinues(p, At("connection", "getAddress"), <<>>)
                 ELSE connectionFailed(p, m)

\* "await newSigner.getAddress()" settles
getAddress(ok, m) ==
    LET p == At("connection", "getAddress")
    IN  /\ Mounted
        /\ tasks[p] > 0
        /\ IF ok THEN connectionContinues(p, At("connection", "getNetwork"), <<>>)
                 ELSE connectionFailed(p, m)

\* "await newProvider.getNetwork()" settles; on another chain than Sepolia
\* switchToSepolia starts with its wallet_switchEthereumChain request
getNetwork(ok, chainId, m) ==
    LET p == At("connection", "getNetwork")
    IN  /\ Mounted
        /\ tasks[p] > 0
        /\ IF ~ok THEN connectionFailed(p, m)
           ELSE IF chainId # Sepolia
             THEN connectionContinues(
                      p, At("connection", "wallet_switchEthereumChain"),
                      <<"wallet_switchEthereumChain">>)
           ELSE connectionContinues(p, At("connection", "getBalance"), <<>>)

\* variant: every rejection of the switch is answered with the add request
switchToSepolia_AlwaysAdds(ok, code, m) ==
    LET p == At("connection", "wallet_switchEthereumChain")
    IN  /\ Mounted
        /\ tasks[p] > 0
        /\ IF ok
             THEN connectionContinues(p, At("connection", "getBalance"), <<>>)
             ELSE connectionContinues(
                      p, At("connection", "wallet_addEthereumChain"),
                      <<"wallet_addEthereumChain">>)

\* switchToSepolia: the wallet_switchEthereumChain request settles, with the
\* error code of the wallet if it was rejected
switchToSepolia(ok, code, m) ==
    LET p == At("connection", "wallet_switchEthereumChain")
    IN  /\ Mounted
        /\ tasks[p] > 0
        /\ IF ok
             THEN connectionContinues(p, At("connection", "getBalance"), <<>>)
           ELSE IF code = UnrecognizedChain
             THEN connectionContinues(
                      p, At("connection", "wallet_addEthereumChain"),
                      <<"wallet_addEthereumChain">>)
           ELSE connectionFailed(p, m)

\* switchToSepolia: the wallet_addEthereumChain request settles
addEthereumChain(ok, m) ==
    LET p == At("connection", "wallet_addEthereumChain")
    IN  /\ Mounted
        /\ tasks[p] > 0
        /\ IF ok THEN connectionContinues(p, At("connection", "getBalance"), <<>>)
                 ELSE connectionFailed(p, m)

\* "await newProvider.getBalance(userAddress)" settles; checkAdminStatus
\* starts with contract.authorizedIssuers(address)
getBalance(ok, m) ==
    LET p == At("connection", "getBalance")
    IN  /\ Mounted
        /\ tasks[p] > 0
        /\ IF ok THEN connectionContinues(p, At("connection", "authorizedIssuers"),
                                          <<"authorizedIssuers">>)
                 ELSE connectionFailed(p, m)

\* checkAdminStatus: contract.authorizedIssuers settles; its own catch turns
\* a failure into "false"
checkAdminStatus(ok) ==
    LET p == At("connection", "authorizedIssuers")
    IN  /\ Mounted
        /\ tasks[p] > 0
        /\ IF ok THEN connectionContinues(p, At("connection", "owner"), <<"owner">>)
                 ELSE connectionSucceeds(p, FALSE)

\* checkAdminStatus: contract.owner settles; isAdmin is "isAuthorized ||
\* address == owner", or false when the call failed
checkOwner(ok, isAdmin) ==
    LET p == At("connection", "owner")
    IN  /\ Mounted
        /\ tasks[p] > 0
        /\ connectionSucceeds(p, ok /\ isAdmin)

(***************************************************************************)
(* The four actions of the connected page                                  *)
(***************************************************************************)
\* the connection guard every handler starts with
notConnected == contract = "null" \/ ~walletState.isConnected

\* the guard failed: setError('Please connect your wallet first'); return
refuse ==
    /\ error' = PleaseConnect
    /\ issued' = <<>>
    /\ UNCHANGED << walletState, contract, loading, success, requestForm,
                    adminForm, verifiedCert, myCertificates, tasks >>

\* the Submit Request form is submitted: handleCertificationRequest up to
\* "await contract.requestCertification(...)"
handleCertificationRequest ==
    /\ Mounted
    /\ enabled("request")
    /\ requestForm = "entered"
    /\ IF notConnected THEN refuse
       ELSE /\ Suspended < MaxTasks
            /\ loading' = "request"
            /\ error' = ""
            /\ success' = ""
            /\ tasks' = Suspend(At("request", "requestCertification"))
            /\ issued' = <<"requestCertification">>
            /\ UNCHANGED << walletState, contract, requestForm, adminForm,
                            verifiedCert, myCertificates >>

\* variant: a failed call is issued again instead of being reported
requestFailed_Retries(p, m) ==
    /\ issued' = <<"requestCertification">>
    /\ UNCHANGED << walletState, contract, loading, error, success, requestForm,
                    adminForm, verifiedCert, myCertificates, tasks >>

\* catch and finally of handleCertificationRequest
requestFailed(p, m) ==
    /\ tasks' = Return(p)
    /\ error' = RequestFailed(m)
    /\ loading' = ""
    /\ issued' = <<>>
    /\ UNCHANGED << walletState, contract, success, requestForm, adminForm,
                    verifiedCert, myCertificates >>

\* "await contract.requestCertification(...)" settles: the transaction was
\* sent, and the handler goes on to "await tx.wait()"
requestSent(ok, m) ==
    LET p == At("request", "requestCertification")
    IN  /\ Mounted
        /\ tasks[p] > 0
        /\ IF ok THEN /\ tasks' = Resume(p, At("request", "wait"))
                      /\ issued' = <<>>
                      /\ UNCHANGED << walletState, contract, loading, error,
                                      success, requestForm, adminForm,
                                      verifiedCert, myCertificates >>
                 ELSE requestFailed(p, m)

\* "await tx.wait()" settles: the confirmation arrived, or the transaction failed
requestConfirmed(ok, m) ==
    LET p == At("request", "wait")
    IN  /\ Mounted
        /\ tasks[p] > 0
        /\ IF ok THEN /\ tasks' = Return(p)
                      /\ success' = RequestSubmitted
                      /\ requestForm' = ""
                      /\ loading' = ""
                      /\ issued' = <<>>
                      /\ UNCHANGED << walletState, contract, error, adminForm,
                                      verifiedCert, myCertificates >>
                 ELSE requestFailed(p, m)

\* the Process Request form of the admin panel is submitted:
\* handleProcessRequest up to "await contract.processCertificationRequest(...)"
handleProcessRequest ==
    /\ Mounted
    /\ enabled("admin")
    /\ adminForm = "entered"
    /\ IF notConnected THEN refuse
       ELSE /\ Suspended < MaxTasks
            /\ loading' = "admin"
            /\ error' = ""
            /\ success' = ""
            /\ tasks' = Suspend(At("admin", "processCertificationRequest"))
            /\ issued' = <<"processCertificationRequest">>
            /\ UNCHANGED << walletState, contract, requestForm, adminForm,
                            verifiedCert, myCertificates >>

\* catch and finally of handleProcessRequest
processFailed(p, m) ==
    /\ tasks' = Return(p)
    /\ error' = ProcessingFailed(m)
    /\ loading' = ""
    /\ issued' = <<>>
    /\ UNCHANGED << walletState, contract, success, requestForm, adminForm,
                    verifiedCert, myCertificates >>

processSent(ok, m) ==
    LET p == At("admin", "processCertificationRequest")
    IN  /\ Mounted
        /\ tasks[p] > 0
        /\ IF ok THEN /\ tasks' = Resume(p, At("admin", "wait"))
                      /\ issued' = <<>>
                      /\ UNCHANGED << walletState, contract, loading, error,
                                      success, requestForm, adminForm,
                                      verifiedCert, myCertificates >>
                 ELSE processFailed(p, m)

processConfirmed(ok, m) ==
    LET p == At("admin", "wait")
    IN  /\ Mounted
        /\ tasks[p] > 0
        /\ IF ok THEN /\ tasks' = Return(p)
                      /\ success' = RequestProcessed
                      /\ adminForm' = ""
                      /\ loading' = ""
                      /\ issued' = <<>>
                      /\ UNCHANGED << walletState, contract, error, requestForm,
                                      verifiedCert, myCertificates >>
                 ELSE processFailed(p, m)

\* the Verify Certificate form is submitted: handleVerifyCertificate up to
\* "await contract.verifyCertificate(...)".  No handler writes the id field
\* of this form, so it is taken as filled in.
handleVerifyCertificate ==
    /\ Mounted
    /\ enabled("verify")
    /\ IF notConnected THEN refuse
       ELSE /\ Suspended < MaxTasks
            /\ loading' = "verify"
            /\ error' = ""
            /\ success' = ""
            /\ tasks' = Suspend(At("verify", "verifyCertificate"))
            /\ issued' = <<"verifyCertificate">>
            /\ UNCHANGED << walletState, contract, requestForm, adminForm,
                            verifiedCert, myCertificates >>

\* "await contract.verifyCertificate(...)" settles
verifyReturned(ok, m) ==
    LET p == At("verify", "verifyCertificate")
    IN  /\ Mounted
        /\ tasks[p] > 0
        /\ tasks' = Return(p)
        /\ loading' = ""
        /\ issued' = <<>>
        /\ IF ok THEN /\ verifiedCert' = "cert"
                      /\ success' = CertificateVerified
                      /\ UNCHANGED error
                 ELSE /\ verifiedCert' = "null"
                      /\ error' = VerificationFailed(m)
                      /\ UNCHANGED success
        /\ UNCHANGED << walletState, contract, requestForm, adminForm,
                        myCertificates >>

\* the Load My Certificates button: loadMyCertificates up to
\* "await contract.getHolderCertificates(walletState.account)"
loadMyCertificates ==
    /\ Mounted
    /\ enabled("certificates")
    /\ IF notConnected THEN refuse
       ELSE /\ Suspended < MaxTasks
            /\ loading' = "certificates"
            /\ error' = ""
            /\ tasks' = Suspend(At("certificates", "getHolderCertificates"))
            /\ issued' = <<"getHolderCertificates">>
            /\ UNCHANGED << walletState, contract, success, requestForm,
                            adminForm, verifiedCert, myCertificates >>

\* loadMyCertificates after its loop: setCertificates(certs), and its finally
certificatesLoaded(p, got) ==
    /\ tasks' = Return(p)
    /\ myCertificates' = got
    /\ loading' = ""
    /\ issued' = <<>>
    /\ UNCHANGED << walletState, contract, error, success, requestForm,
                    adminForm, verifiedCert >>

\* "await contract.getHolderCertificates(...)" settles with a list of ids:
\* the loop calls verifyCertificate for the first of them
holderCertificatesReturned(ok, ids) ==
    LET p == At("certificates", "getHolderCertificates")
    IN  /\ Mounted
        /\ tasks[p] > 0
        /\ IF ~ok
             THEN /\ tasks' = Return(p)
                  /\ error' = ErrorLoading
                  /\ loading' = ""
                  /\ issued' = <<>>
                  /\ UNCHANGED << walletState, contract, success, requestForm,
                                  adminForm, verifiedCert, myCertificates >>
           ELSE IF ids = <<>> THEN certificatesLoaded(p, <<>>)
           ELSE /\ tasks' = Resume(p, InLoop(ids, <<>>))
                /\ issued' = <<"verifyCertificate">>
                /\ UNCHANGED << walletState, contract, loading, error, success,
                                requestForm, adminForm, verifiedCert,
                                myCertificates >>

\* a loop in which an answer that fails ends the action with the error message
certificateReturned_FailureAborts(left, got, ok, isValid) ==
    LET p == InLoop(left, got)
        has == IF ok THEN Append(got, [id |-> Head(left),
                                       isValid |-> isValid])
                     ELSE got
    IN  /\ Mounted
        /\ tasks[p] > 0
        /\ IF ~ok
             THEN /\ tasks' = Return(p)
                  /\ error' = ErrorLoading
                  /\ loading' = ""
                  /\ issued' = <<>>
                  /\ UNCHANGED << walletState, contract, success, requestForm,
                                  adminForm, verifiedCert, myCertificates >>
           ELSE IF Len(left) = 1 THEN certificatesLoaded(p, has)
           ELSE /\ tasks' = Resume(p, InLoop(Tail(left), has))
                /\ issued' = <<"verifyCertificate">>
                /\ UNCHANGED << walletState, contract, loading, error, success,
                                requestForm, adminForm, verifiedCert,
                                myCertificates >>

\* "await contract.verifyCertificate(id)" inside the loop settles for the
\* first id left: the entry is pushed with the isValid of the answer, or the
\* inner catch skips it; then the next id, or the end
certificateReturned(left, got, ok, isValid) ==
    LET p == InLoop(left, got)
        has == IF ok THEN Append(got, [id |-> Head(left),
                                       isValid |-> isValid])
                     ELSE got
    IN  /\ Mounted
        /\ tasks[p] > 0
        /\ IF Len(left) = 1 THEN certificatesLoaded(p, has)
           ELSE /\ tasks' = Resume(p, InLoop(Tail(left), has))
                /\ issued' = <<"verifyCertificate">>
                /\ UNCHANGED << walletState, contract, loading, error, success,
                                requestForm, adminForm, verifiedCert,
                                myCertificates >>

(***************************************************************************)
(* Typing into the forms                                                   *)
(***************************************************************************)
\* setProfession, setScore, setLevel, setEvidence
enterRequest ==
    /\ Mounted
    /\ rendered("request")
    /\ requestForm = ""
    /\ requestForm' = "entered"
    /\ issued' = <<>>
    /\ UNCHANGED << walletState, contract, loading, error, success, adminForm,
                    verifiedCert, myCertificates, tasks >>

\* setRequestId, setIssuerName
enterProcess ==
    /\ Mounted
    /\ rendered("admin")
    /\ adminForm = ""
    /\ adminForm' = "entered"
    /\ issued' = <<>>
    /\ UNCHANGED << walletState, contract, loading, error, success, requestForm,
                    verifiedCert, myCertificates, tasks >>

(***************************************************************************)
(* Notifications of the wallet                                             *)
(***************************************************************************)
\* window.location.reload(): the page starts over, its tasks are gone
reload ==
    /\ walletState' = [isConnected |-> FALSE, account |-> "", isAdmin |-> FALSE]
    /\ contract' = "null"
    /\ loading' = ""
    /\ error' = ""
    /\ success' = ""
    /\ requestForm' = ""
    /\ adminForm' = ""
    /\ verifiedCert' = "null"
    /\ myCertificates' = <<>>
    /\ tasks' = NoTasks
    /\ issued' = <<>>
    /\ mountPending' = TRUE
    /\ Page

\* setWalletState(prev => ({ ...prev, isConnected: false }))
disconnect(message) ==
    /\ walletState' = [walletState EXCEPT !.isConnected = FALSE]
    /\ error' = message
    /\ issued' = <<>>
    /\ UNCHANGED << contract, loading, success, requestForm, adminForm,
                    verifiedCert, myCertificates, tasks >>

\* variant: every accountsChanged notification reloads the page
handleAccountsChanged_AlwaysReloads(accounts) ==
    /\ ethereum # "undefined"
    /\ ~mountPending
    /\ reload

handleAccountsChanged(accounts) ==
    /\ ethereum # "undefined"
    /\ ~mountPending
    /\ IF Len(accounts) = 0
         THEN disconnect(error) /\ UNCHANGED mountPending /\ Page
         ELSE reload

handleChainChanged(chainId) ==
    /\ ethereum # "undefined"
    /\ ~mountPending
    /\ IF chainId # SEPOLIA_CHAIN_ID
         THEN disconnect(PleaseSwitch) /\ UNCHANGED mountPending /\ Page
         ELSE reload

(***************************************************************************)
(* The page as a state machine                                             *)
(***************************************************************************)
CheckWalletConnection == \E selected \in BOOLEAN : checkWalletConnection(selected)
\* the Connect MetaMask button
ClickConnect ==
    /\ Mounted
    /\ enabled("connection")
    /\ connectWallet
RequestAccounts == \E ok \in BOOLEAN, m \in Messages : requestAccounts(ok, m)
GetSigner == \E ok \in BOOLEAN, m \in Messages : getSigner(ok, m)
GetAddress == \E ok \in BOOLEAN, m \in Messages : getAddress(ok, m)
GetNetwork ==
    \E ok \in BOOLEAN, chainId \in NetworkIds, m \in Messages :
        getNetwork(ok, chainId, m)
SwitchToSepolia ==
    \E ok \in BOOLEAN, code \in ErrorCodes, m \in Messages :
        switchToSepolia(ok, code, m)
AddEthereumChain == \E ok \in BOOLEAN, m \in Messages : addEthereumChain(ok, m)
GetBalance == \E ok \in BOOLEAN, m \in Messages : getBalance(ok, m)
CheckAdminStatus == \E ok \in BOOLEAN : checkAdminStatus(ok)
CheckOwner == \E ok \in BOOLEAN, isAdmin \in BOOLEAN : checkOwner(ok, isAdmin)
HandleCertificationRequest == handleCertificationRequest
RequestSent == \E ok \in BOOLEAN, m \in Messages : requestSent(ok, m)
RequestConfirmed == \E ok \in BOOLEAN, m \in Messages : requestConfirmed(ok, m)
HandleProcessRequest == handleProcessRequest
ProcessSent == \E ok \in BOOLEAN, m \in Messages : processSent(ok, m)
ProcessConfirmed == \E ok \in BOOLEAN, m \in Messages : processConfirmed(ok, m)
HandleVerifyCertificate == handleVerifyCertificate
VerifyReturned == \E ok \in BOOLEAN, m \in Messages : verifyReturned(ok, m)
LoadMyCertificates == loadMyCertificates
HolderCertificatesReturned ==
    \E ok \in BOOLEAN, n \in 0 .. MaxListed :
        holderCertificatesReturned(ok, [ i \in 1 .. n |-> i ])
CertificateReturned ==
    \* the registry answers a verification only with isValid = true
    \E p \in LoopPositions, ok \in BOOLEAN :
        certificateReturned(p[3], p[4], ok, TRUE)
EnterRequest == enterRequest
EnterProcess == enterProcess
HandleAccountsChanged == \E accounts \in AccountLists : handleAccountsChanged(accounts)
HandleChainChanged == \E chainId \in ChainIds : handleChainChanged(chainId)

AppNext ==
    \/ CheckWalletConnection
    \/ ClickConnect
    \/ RequestAccounts
    \/ GetSigner
    \/ GetAddress
    \/ GetNetwork
    \/ SwitchToSepolia
    \/ AddEthereumChain
    \/ GetBalance
    \/ CheckAdminStatus
    \/ CheckOwner
    \/ HandleCertificationRequest
    \/ RequestSent
    \/ RequestConfirmed
    \/ HandleProcessRequest
    \/ ProcessSent
    \/ ProcessConfirmed
    \/ HandleVerifyCertificate
    \/ VerifyReturned
    \/ LoadMyCertificates
    \/ HolderCertificatesReturned
    \/ CertificateReturned
    \/ EnterRequest
    \/ EnterProcess
    \/ HandleAccountsChanged
    \/ HandleChainChanged

\* the registry on its own: the page stays as it was loaded
Deployed == Init /\ Loaded /\ ethereum = "metamask"
Spec == Deployed /\ [][Next]_allVars

\* the page on its own: the registry stays as it was deployed
Opened == Init /\ Loaded /\ ethereum \in {"undefined", "metamask"}
AppSpec == Opened /\ [][AppNext]_allVars

(***************************************************************************)
(* The requirement tables on their own: setProfessionRequirements with     *)
(* several labels and pairs, next to the calls that leave the tables alone *)
(***************************************************************************)
\* labels and (minScore, minLevel) pairs offered to setProfessionRequirements:
\* a label with a default and one without, a pair and the zero pair
RequirementLabels == {"Software Engineer", "Chef"}
RequirementPairs == { <<90, 5>>, <<60, 2>>, <<0, 0>> }

SetAnyProfessionRequirements ==
    \E sender \in Addresses, p \in RequirementLabels, r \in RequirementPairs :
        setProfessionRequirements(sender, p, r[1], r[2])

RequirementsNext ==
    \/ SetAnyProfessionRequirements
    \/ AuthorizeIssuer
    \/ RevokeIssuer
    \/ EmergencyPause
    \/ AdvanceTime

RequirementsSpec == Deployed /\ [][RequirementsNext]_allVars

(***************************************************************************)
(* The certificate list of the page next to the registry it reads: the     *)
(* page is connected as Alice, and       the calls of loadMyCertificates   *)
(* are answered by the registry in the state it has when each call         *)
(* settles, while transactions go on between them                          *)
(***************************************************************************)
\* the page after connectWallet succeeded for an account that is neither
\* the owner nor an issuer
Listing ==
    /\ Init
    /\ walletState = [isConnected |-> TRUE, account |-> Alice,
                      isAdmin |-> FALSE]
    /\ contract = "contract"
    /\ loading = ""
    /\ error = ""
    /\ success = Connected
    /\ requestForm = ""
    /\ adminForm = ""
    /\ verifiedCert = "null"
    /\ myCertificates = <<>>
    /\ tasks = NoTasks
    /\ issued = <<>>
    /\ mountPending = FALSE
    /\ ethereum = "metamask"

\* contract.getHolderCertificates(walletState.account) answered by the registry
HolderCertificatesFetched ==
    holderCertificatesReturned(TRUE, getHolderCertificates(walletState.account))

\* contract.verifyCertificate(id) answered by the registry: a revert rejects
\* the call, an answer carries the isValid field of the certificate
CertificateFetched ==
    \E p \in LoopPositions :
        LET answer == verifyCertificate(Head(p[3]))
        IN  certificateReturned(p[3], p[4], answer.status = "ok",
                                IF answer.status = "ok" THEN answer.ret[3]
                                                        ELSE FALSE)

LoadNext ==
    \/ RequestCertification
    \/ ProcessCertificationRequest
    \/ RevokeCertificate
    \/ ExtendCertificateValidity
    \/ AdvanceTime
    \/ LoadMyCertificates
    \/ HolderCertificatesFetched
    \/ CertificateFetched

LoadSpec == Listing /\ [][LoadNext]_allVars

(***************************************************************************)
(* The transactions of one block: every operation of the contract by every *)
(* caller at the timestamp of the deployment block, as long as at most     *)
(* NarrowRequests requests were submitted and no certificate was extended  *)
(* by more than NarrowExtendDays days                                      *)
(***************************************************************************)
BlockNext ==
    \/ \E sub \in Submissions :
          /\ requestValidation(sub[2], sub[3], sub[4], sub[5]) = "ok"
                => nextRequestId <= NarrowRequests
          /\ requestCertification(sub[1], sub[2], sub[3], sub[4], sub[5])
    \/ ProcessCertificationRequest
    \/ RevokeCertificate
    \/ \E sender \in Addresses, id \in IdInputs, d \in AdditionalDays :
          /\ extendGuard(sender, id, d) = "ok"
                => cert(id).expiryDate + d * DAY
                     <= cert(id).issueDate
                          + (ValidityDays + NarrowExtendDays) * DAY
          /\ extendCertificateValidity(sender, id, d)
    \/ AuthorizeIssuer
    \/ RevokeIssuer
    \/ SetProfessionRequirements
    \/ EmergencyPause

BlockSpec == Deployed /\ [][BlockNext]_allVars

(***************************************************************************)
(* The registry with few requests: the same transactions spread over       *)
(* blocks, so that certificates reach their expiry date                    *)
(***************************************************************************)
NarrowSpec == Deployed /\ [][BlockNext \/ AdvanceTime]_allVars

(***************************************************************************)
(* The life of requests and certificates on its own: requests are          *)
(* submitted and processed and certificates revoked while time passes;     *)
(* issuers, requirement tables and certificate terms stay as deployed      *)
(***************************************************************************)
LifecycleNext ==
    \/ RequestCertification
    \/ ProcessCertificationRequest
    \/ RevokeCertificate
    \/ AdvanceTime

LifecycleSpec == Deployed /\ [][LifecycleNext]_allVars

(***************************************************************************)
(* The term of a certificate and the issuers who may change it: the        *)
(* certificates of at most NarrowRequests requests are issued, extended    *)
(* and revoked while issuers come and go and time passes                   *)
(***************************************************************************)
ValidityNext ==
    \/ \E sub \in Submissions :
          /\ requestValidation(sub[2], sub[3], sub[4], sub[5]) = "ok"
                => nextRequestId <= NarrowRequests
          /\ requestCertification(sub[1], sub[2], sub[3], sub[4], sub[5])
    \/ ProcessCertificationRequest
    \/ RevokeCertificate
    \/ ExtendCertificateValidity
    \/ AuthorizeIssuer
    \/ RevokeIssuer
    \/ AdvanceTime

ValiditySpec == Deployed /\ [][ValidityNext]_allVars

(***************************************************************************)
(* Vocabulary of the properties, stated on the stored data alone           *)
(***************************************************************************)
Range(seq) == { seq[i] : i \in 1 .. Len(seq) }
\* ids of the requests submitted and of the certificates issued so far
SubmittedIds == 1 .. (nextRequestId - 1)
IssuedIds == 1 .. (nextCertificateId - 1)
\* the identity is the owner or carries the issuer flag
FlaggedOrOwner(a) == authorizedIssuers[a] \/ a = owner
\* the certificate was issued, is not revoked and expires strictly later than now
ValidUnexpired(id) ==
    /\ id \in IssuedIds
    /\ certificates[id].isValid
    /\ certificates[id].expiryDate > now
\* the submission breaks one of the four input requirements
BadSubmission(sub) ==
    sub[3] > 100 \/ sub[4] > 10 \/ sub[2] = "" \/ sub[5] = ""
Requested(sub) == requestCertification(sub[1], sub[2], sub[3], sub[4], sub[5])
\* the transaction reverted and left the whole registry and the log untouched
NothingHappened ==
    result' = "reverted" /\ registry' = registry /\ lastEvents' = <<>>

(***************************************************************************)
(* C1: a request is processed at most once.  A processCertificationRequest *)
(* call either reverts, leaving the registry (certificates and counters    *)
(* included) untouched, or it is a call on a submitted request whose       *)
(* isProcessed flag is clear and sets that flag; the flag of a submitted   *)
(* request never falls back.  So once a call succeeded for an id, every    *)
(* later call on that id, whoever makes it, reverts and issues nothing.    *)
(***************************************************************************)
C1_ProcessedAtMostOnce ==
    [][ /\ \A id \in SubmittedIds :
              certificationRequests[id].isProcessed
                  => certificationRequests'[id].isProcessed
        /\ \/ NothingHappened
           \/ \A sender \in Addresses, id \in IdInputs, name \in IssuerNames :
                 processCertificationRequest(sender, id, name) =>
                     /\ id \in SubmittedIds
                     /\ ~certificationRequests[id].isProcessed
                     /\ certificationRequests'[id].isProcessed ]_vars

\* request 1 was processed, a later transaction reverted, and processing
\* request 1 again is refused even to the owner
C1_Witness ==
    /\ 1 \in SubmittedIds
    /\ certificationRequests[1].isProcessed
    /\ result = "reverted"
    /\ processGuard(owner, 1) = "Request already processed"

(***************************************************************************)
(* C2: request ids are 1, 2, 3, ... in submission order.  The stored       *)
(* requests are exactly the ids below nextRequestId; a successful          *)
(* submission is stored under the id nextRequestId, which is greater than  *)
(* every id in use, names that id in its event and advances the counter by *)
(* one; a failed submission leaves the counter alone.                      *)
(***************************************************************************)
C2_RequestIdsSequential ==
    /\ [](DOMAIN certificationRequests = SubmittedIds /\ nextRequestId >= 1)
    /\ [][ \/ result' = "reverted" /\ nextRequestId' = nextRequestId
           \/ \A sub \in Submissions :
                 Requested(sub) =>
                     /\ result' = "ok"
                     /\ nextRequestId \notin DOMAIN certificationRequests
                     /\ \A k \in DOMAIN certificationRequests : k < nextRequestId
                     /\ DOMAIN certificationRequests' =
                            DOMAIN certificationRequests \cup {nextRequestId}
                     /\ nextRequestId' = nextRequestId + 1
                     /\ lastEvents' = << <<"CertificationRequested",
                                           nextRequestId, sub[1], sub[2]>> >>
                     /\ \A k \in DOMAIN certificationRequests :
                            certificationRequests'[k] = certificationRequests[k] ]_vars

\* two submissions went through and got the ids 1 and 2
C2_Witness ==
    /\ nextRequestId = 3
    /\ DOMAIN certificationRequests = {1, 2}
    /\ result = "ok"
    /\ Len(lastEvents) = 1
    /\ lastEvents[1][1] = "CertificationRequested"
    /\ lastEvents[1][2] = 2

(***************************************************************************)
(* C3: a successful processing step of a request issues the certificate    *)
(* id nextCertificateId: the id is unused and greater than every issued    *)
(* id, the counter advances by one, the issued ids stay 1..count, and the  *)
(* holder list of the request's applicant contains the new id afterwards.  *)
(***************************************************************************)
C3_ApprovalIssuesFreshId ==
    /\ [](DOMAIN certificates = IssuedIds /\ nextCertificateId >= 1)
    /\ [][ \/ result' = "reverted"
           \/ \A sender \in Addresses, id \in IdInputs, name \in IssuerNames :
                 processCertificationRequest(sender, id, name) =>
                     /\ nextCertificateId \notin DOMAIN certificates
                     /\ \A k \in DOMAIN certificates : k < nextCertificateId
                     /\ DOMAIN certificates' =
                            DOMAIN certificates \cup {nextCertificateId}
                     /\ nextCertificateId' = nextCertificateId + 1
                     /\ nextCertificateId \in Range(getHolderCertificates(
                                certificationRequests[id].applicant))'
                     /\ <<"CertificationApproved", id, nextCertificateId>>
                            \in Range(lastEvents') ]_vars

\* two requests were approved: the second certificate has id 2 and is in the
\* holder list of its request's applicant
C3_Witness ==
    /\ nextCertificateId = 3
    /\ result = "ok"
    /\ \E r \in SubmittedIds :
          /\ <<"CertificationApproved", r, 2>> \in Range(lastEvents)
          /\ 2 \in Range(getHolderCertificates(certificationRequests[r].applicant))

(***************************************************************************)
(* C4: verifyCertificate(id) succeeds exactly for the issued, unrevoked    *)
(* certificates whose expiry is strictly later than now, and then returns  *)
(* the stored holder, profession, isValid = TRUE, issue date, expiry date, *)
(* issuer and credential hash; for 0, for nextCertificateId and beyond,    *)
(* for a revoked and for an expired certificate it fails.                  *)
(***************************************************************************)
C4_VerifyExactlyValid ==
    \A id \in IdInputs \cup {nextCertificateId, nextCertificateId + 1} :
        IF ValidUnexpired(id)
          THEN /\ verifyCertificate(id).status = "ok"
               /\ verifyCertificate(id).ret =
                      << certificates[id].holder, certificates[id].profession,
                         TRUE, certificates[id].issueDate,
                         certificates[id].expiryDate, certificates[id].issuer,
                         certificates[id].hashedCredentials >>
          ELSE verifyCertificate(id).status # "ok"

\* one certificate verifies while another, unrevoked one fails because its
\* expiry equals the current time; the next unassigned id fails as well
C4_Witness ==
    \E a \in IssuedIds, b \in IssuedIds :
        /\ verifyCertificate(a).status = "ok"
        /\ certificates[b].isValid
        /\ certificates[b].expiryDate = now
        /\ verifyCertificate(b).status = "Certificate expired"
        /\ verifyCertificate(nextCertificateId).status # "ok"

(***************************************************************************)
(* C5: revocation is one-directional.  A certificate is valid when it is   *)
(* issued, and no step sets the isValid flag of an issued certificate from *)
(* FALSE back to TRUE.                                                     *)
(***************************************************************************)
C5_RevocationOneWay ==
    [][ /\ \A id \in DOMAIN certificates :
              /\ id \in DOMAIN certificates'
              /\ ~certificates[id].isValid => ~certificates'[id].isValid
        /\ \A id \in (DOMAIN certificates') \ (DOMAIN certificates) :
              certificates'[id].isValid ]_vars

\* a revoked certificate, with a later transaction by an authorized issuer
\* (the approval of another request) behind it
C5_Witness ==
    /\ \E id \in IssuedIds : ~certificates[id].isValid
    /\ \E id \in IssuedIds : certificates[id].isValid
    /\ result = "ok"
    /\ Len(lastEvents) = 2

(***************************************************************************)
(* C6: a caller that is neither the owner nor flagged in authorizedIssuers *)
(* cannot process, revoke or extend: every such call reverts, the requests *)
(* (their isProcessed flags included) and the certificates (validity flag  *)
(* and expiry date included) stay as they are.                             *)
(***************************************************************************)
C6_NonIssuerRejected ==
    [][ \/ /\ NothingHappened
           /\ certificationRequests' = certificationRequests
           /\ certificates' = certificates
        \/ ~ \E sender \in Addresses, id \in IdInputs :
               /\ ~FlaggedOrOwner(sender)
               /\ \/ \E name \in IssuerNames :
                        processCertificationRequest(sender, id, name)
                  \/ \E reason \in Reasons :
                        revokeCertificate(sender, id, reason)
                  \/ \E d \in AdditionalDays :
                        extendCertificateValidity(sender, id, d) ]_vars

\* a request is pending, alice is no issuer, the latest transaction
\* reverted, and alice is refused all three operations on every id
C6_Witness ==
    /\ result = "reverted"
    /\ ~FlaggedOrOwner(Alice)
    /\ \E r \in SubmittedIds : ~certificationRequests[r].isProcessed
    /\ \A id \in IdInputs :
          /\ processGuard(Alice, id) = "Not authorized issuer"
          /\ revokeGuard(Alice, id) = "Not authorized issuer"
          /\ extendGuard(Alice, id, 1) = "Not authorized issuer"

(***************************************************************************)
(* C7: a caller other than the owner, an authorized issuer included,       *)
(* cannot change issuer flags or profession requirements: authorizeIssuer, *)
(* revokeIssuer and setProfessionRequirements revert for it and leave      *)
(* authorizedIssuers and both requirement maps unchanged.                  *)
(***************************************************************************)
C7_NonOwnerRejected ==
    [][ \/ /\ NothingHappened
           /\ authorizedIssuers' = authorizedIssuers
           /\ minimumScoreRequirement' = minimumScoreRequirement
           /\ minimumLevelRequirement' = minimumLevelRequirement
        \/ ~ \E sender \in Addresses :
               /\ sender # owner
               /\ \/ \E issuer \in IssuerInputs, org \in Organizations :
                        authorizeIssuer(sender, issuer, org)
                  \/ \E issuer \in IssuerInputs : revokeIssuer(sender, issuer)
                  \/ \E r \in RequirementInputs :
                        setProfessionRequirements(sender, r[1], r[2], r[3]) ]_vars

\* bob is a flagged issuer, not the owner; the latest transaction reverted
\* and the owner guard refuses bob
C7_Witness ==
    /\ authorizedIssuers[Bob]
    /\ Bob # owner
    /\ result = "reverted"
    /\ onlyOwner(Bob) = "Not authorized"

(***************************************************************************)
(* C8: a submission with score > 100, level > 10, an empty profession or   *)
(* an empty evidence string reverts: no request is stored, nextRequestId   *)
(* and getRequestCount() keep their values and no event is logged.         *)
(***************************************************************************)
C8_BadSubmissionRejected ==
    [][ \/ /\ NothingHappened
           /\ certificationRequests' = certificationRequests
           /\ nextRequestId' = nextRequestId
           /\ getRequestCount' = getRequestCount
        \/ ~ \E sub \in Submissions : BadSubmission(sub) /\ Requested(sub) ]_vars

\* after one stored request a transaction reverted, and all five bad
\* submissions are refused, each for its own requirement
C8_Witness ==
    /\ result = "reverted"
    /\ getRequestCount = 1
    /\ requestValidation("Software Engineer", 150, 4, "portfolio-link")
          = "Score must be between 0-100"
    /\ requestValidation("Software Engineer", 101, 4, "portfolio-link")
          = "Score must be between 0-100"
    /\ requestValidation("Software Engineer", 80, 11, "portfolio-link")
          = "Level must be between 1-10"
    /\ requestValidation("", 80, 4, "portfolio-link") = "Profession required"
    /\ requestValidation("Software Engineer", 80, 4, "") = "Evidence required"

\* the step is a call that fails its caller guard, its id or certificate
\* guard, its input validation or a checked multiplication or addition
C9_FailingCall ==
    \/ \E sender \in Addresses :
          /\ sender # owner
          /\ \/ \E issuer \in IssuerInputs, org \in Organizations :
                   authorizeIssuer(sender, issuer, org)
             \/ \E issuer \in IssuerInputs : revokeIssuer(sender, issuer)
             \/ \E r \in RequirementInputs :
                   setProfessionRequirements(sender, r[1], r[2], r[3])
             \/ emergencyPause(sender)
    \/ \E sub \in Submissions : BadSubmission(sub) /\ Requested(sub)
    \/ \E sender \in Addresses, id \in IdInputs :
          \/ /\ \/ ~FlaggedOrOwner(sender)
                \/ id \notin SubmittedIds
                \/ certificationRequests[id].isProcessed
             /\ \E name \in IssuerNames :
                   processCertificationRequest(sender, id, name)
          \/ /\ ~FlaggedOrOwner(sender) \/ ~ValidUnexpired(id)
             /\ \E reason \in Reasons : revokeCertificate(sender, id, reason)
          \/ \E d \in AdditionalDays :
                /\ \/ ~FlaggedOrOwner(sender)
                   \/ ~ValidUnexpired(id)
                   \/ d * DAY > UintMax
                   \/ certificates[id].expiryDate + d * DAY > UintMax
                /\ extendCertificateValidity(sender, id, d)

(***************************************************************************)
(* C9: every operation is all-or-nothing.  Whenever a call fails its       *)
(* caller guard, its id or certificate guard, its input validation or a    *)
(* checked multiplication or addition, the transaction reverts, the whole  *)
(* registry is what it was before the call and no event is logged; and a   *)
(* reverted transaction never leaves a change behind.                      *)
(***************************************************************************)
C9_AllOrNothing ==
    [][ /\ result' = "reverted" => (registry' = registry /\ lastEvents' = <<>>)
        /\ NothingHappened \/ ~C9_FailingCall ]_vars

\* a certificate is valid and the latest transaction reverted; in this
\* state calls fail on the caller guard, on the id guard, on the processed
\* flag and on both overflow checks
C9_Witness ==
    /\ result = "reverted"
    /\ lastEvents = <<>>
    /\ \E c \in IssuedIds :
          /\ ValidUnexpired(c)
          /\ extendGuard(owner, c, MulOverflowDays) = "Panic(0x11)"
          /\ extendGuard(owner, c, AddOverflowDays) = "Panic(0x11)"
          /\ ~mulOverflows(AddOverflowDays, DAY)
    /\ processGuard(owner, 0) = "Invalid request ID"
    /\ processGuard(owner, 1) = "Request already processed"
    /\ revokeGuard(Alice, 1) = "Not authorized issuer"

(***************************************************************************)
(* C10: getEncryptedScore(id) and getEncryptedLevel(id) return the stored  *)
(* handle exactly when the certificate is issued, unrevoked and unexpired  *)
(* and the caller is its holder, a flagged issuer or the owner; for every  *)
(* other caller, and for every caller once the certificate is revoked or   *)
(* expired, the call fails.                                                *)
(***************************************************************************)
C10_HandleReadsGated ==
    \A sender \in Addresses \cup {ZeroAddress, ThisContract},
       id \in IdInputs \cup {nextCertificateId, nextCertificateId + 1} :
        IF /\ ValidUnexpired(id)
           /\ \/ sender = certificates[id].holder
              \/ (sender \in Addresses /\ authorizedIssuers[sender])
              \/ sender = owner
          THEN /\ getEncryptedScore(sender, id) =
                      Returned(<< certificates[id].encryptedScore >>)
               /\ getEncryptedLevel(sender, id) =
                      Returned(<< certificates[id].encryptedLevel >>)
          ELSE /\ getEncryptedScore(sender, id).status # "ok"
               /\ getEncryptedLevel(sender, id).status # "ok"

\* alice holds a valid certificate and reads both handles, the flagged
\* issuer bob reads them too, while alice is refused the handles of bob's
\* revoked certificate and of a certificate she does not hold
C10_Witness ==
    \E a \in IssuedIds, b \in IssuedIds :
        /\ ValidUnexpired(a)
        /\ certificates[a].holder = Alice
        /\ ~FlaggedOrOwner(Alice)
        /\ getEncryptedScore(Alice, a).status = "ok"
        /\ getEncryptedLevel(Alice, a).status = "ok"
        /\ certificates[b].holder = Bob
        /\ ~certificates[b].isValid
        /\ getEncryptedScore(Bob, b).status = "Certificate not valid"
        /\ getEncryptedLevel(Alice, b).status = "Certificate not valid"

(***************************************************************************)
(* C11: revokeCertificate succeeds only when the caller is the owner or a  *)
(* flagged issuer and the certificate is issued, not revoked and not yet   *)
(* expired.  A successful call clears isValid of that certificate, logs    *)
(* CertificateRevoked(id, reason) and changes nothing else; a call on a    *)
(* revoked, an expired or a never-issued certificate reverts and leaves    *)
(* the registry untouched.                                                 *)
(***************************************************************************)
C11_RevokeEffect ==
    [][ \/ NothingHappened
        \/ \A sender \in Addresses, id \in IdInputs, reason \in Reasons :
              revokeCertificate(sender, id, reason) =>
                  /\ FlaggedOrOwner(sender)
                  /\ ValidUnexpired(id)
                  /\ result' = "ok"
                  /\ certificates' =
                         [certificates EXCEPT ![id].isValid = FALSE]
                  /\ lastEvents' = << <<"CertificateRevoked", id, reason>> >>
                  /\ UNCHANGED << owner, nextCertificateId, nextRequestId,
                                  holderCertificates, certificationRequests,
                                  authorizedIssuers, minimumScoreRequirement,
                                  minimumLevelRequirement, acl, now >> ]_vars

\* a certificate has just been revoked by a call that logged the event, a
\* second revocation of it is refused, and so is the revocation of an
\* expired certificate and of the id nothing was issued under
C11_Witness ==
    \E id \in IssuedIds, other \in IssuedIds :
        /\ result = "ok"
        /\ lastEvents = << <<"CertificateRevoked", id, "fraud">> >>
        /\ ~certificates[id].isValid
        /\ certificates[id].expiryDate > now
        /\ revokeGuard(owner, id) = "Certificate not valid"
        /\ certificates[other].isValid
        /\ revokeGuard(owner, other) = "ok"
        /\ revokeGuard(owner, nextCertificateId) = "Certificate not valid"
        /\ revokeGuard(Alice, other) = "Not authorized issuer"

(***************************************************************************)
(* C12: extendCertificateValidity succeeds only when the caller is the     *)
(* owner or a flagged issuer and the certificate is issued, not revoked    *)
(* and not yet expired.  A successful call with d days moves the expiry    *)
(* date to exactly the old expiry date plus d * 86400 seconds, whatever d  *)
(* is, and changes nothing else; a call on an expired or a revoked         *)
(* certificate reverts and leaves the registry untouched.                  *)
(***************************************************************************)
C12_ExtendEffect ==
    [][ \/ NothingHappened
        \/ \A sender \in Addresses, id \in IdInputs, d \in AdditionalDays :
              extendCertificateValidity(sender, id, d) =>
                  /\ FlaggedOrOwner(sender)
                  /\ ValidUnexpired(id)
                  /\ result' = "ok"
                  /\ certificates' =
                         [certificates EXCEPT
                              ![id].expiryDate =
                                  certificates[id].expiryDate + d * DAY]
                  /\ UNCHANGED << owner, nextCertificateId, nextRequestId,
                                  holderCertificates, certificationRequests,
                                  authorizedIssuers, minimumScoreRequirement,
                                  minimumLevelRequirement, acl, now >> ]_vars

\* a certificate issued a year ago and extended by one day before it ran
\* out is still valid on its first expiry date; the owner may extend it
\* again, alice, who is neither the owner nor flagged, may not
C12_Witness ==
    \E id \in IssuedIds :
        /\ certificates[id].expiryDate =
               certificates[id].issueDate + (ValidityDays + 1) * DAY
        /\ now = certificates[id].issueDate + ValidityDays * DAY
        /\ ValidUnexpired(id)
        /\ certificates[id].isValid
        /\ ~FlaggedOrOwner(Alice)
        /\ extendGuard(Alice, id, 1) = "Not authorized issuer"
        /\ extendGuard(owner, id, 0) = "ok"

(***************************************************************************)
(* C13: counts.  A fresh registry reports 0 certificates and 0 requests.   *)
(* In every reachable state getCertificateCount() is the number of         *)
(* requests whose isApproved flag is set, the approved requests are        *)
(* submitted ones, the certificates are stored under the ids 1 ..          *)
(* getCertificateCount(), and getCertificateCount() <= getRequestCount().  *)
(* Every step that sets the isApproved flag of a request stores exactly    *)
(* one new certificate, made out to the applicant, profession and handles  *)
(* of that request, and no other step stores a new certificate.            *)
(***************************************************************************)
C13_ApprovedRequests ==
    { r \in DOMAIN certificationRequests : certificationRequests[r].isApproved }

C13_CountsAgree ==
    /\ getCertificateCount = 0
    /\ getRequestCount = 0
    /\ [](/\ getCertificateCount = Cardinality(C13_ApprovedRequests)
          /\ C13_ApprovedRequests \subseteq SubmittedIds
          /\ DOMAIN certificates = IssuedIds
          /\ getCertificateCount <= getRequestCount)
    /\ [][ LET approvedNow == { r \in DOMAIN certificationRequests' :
                                  /\ certificationRequests'[r].isApproved
                                  /\ ~request(r).isApproved }
               mintedNow == (DOMAIN certificates') \ (DOMAIN certificates)
           IN  /\ Cardinality(approvedNow) = Cardinality(mintedNow)
               /\ Cardinality(mintedNow) <= 1
               /\ \A r \in approvedNow, c \in mintedNow :
                     /\ certificates'[c].holder =
                            certificationRequests'[r].applicant
                     /\ certificates'[c].profession =
                            certificationRequests'[r].profession
                     /\ certificates'[c].encryptedScore =
                            certificationRequests'[r].encryptedScore
                     /\ certificates'[c].encryptedLevel =
                            certificationRequests'[r].encryptedLevel ]_vars

\* two requests were submitted, the second one was approved and the first
\* one is still pending: one certificate, two requests
C13_Witness ==
    /\ getRequestCount = 2
    /\ getCertificateCount = 1
    /\ C13_ApprovedRequests = {2}
    /\ ~certificationRequests[1].isProcessed
    /\ certificates[1].holder = certificationRequests[2].applicant
    /\ result = "ok"
    /\ Len(lastEvents) = 2

(***************************************************************************)
(* C14: a stored request changes exactly once.  No step removes a request  *)
(* record; a step leaves each stored record as it is, unless it is a       *)
(* successful processCertificationRequest call on a record that is not     *)
(* processed yet, which sets isProcessed and isApproved and keeps every    *)
(* other field.  So a record is untouched from submission to processing    *)
(* and untouched again ever after.                                         *)
(***************************************************************************)
C14_RequestChangesOnce ==
    [][ \A id \in DOMAIN certificationRequests :
          /\ id \in DOMAIN certificationRequests'
          /\ \/ certificationRequests'[id] = certificationRequests[id]
             \/ /\ ~certificationRequests[id].isProcessed
                /\ certificationRequests'[id] =
                       [certificationRequests[id] EXCEPT !.isProcessed = TRUE,
                                                         !.isApproved = TRUE]
                /\ result' = "ok"
                /\ \E sender \in Addresses, name \in IssuerNames :
                       processCertificationRequest(sender, id, name) ]_vars

\* a request submitted in the deployment block has just been processed a
\* year later and still carries its submission time, while a second
\* request has gone through a submission of another one, a revocation and
\* time without a change and is still pending
C14_Witness ==
    \E id \in SubmittedIds, other \in SubmittedIds, c \in IssuedIds :
        /\ certificationRequests[id].isProcessed
        /\ certificationRequests[id].isApproved
        /\ certificationRequests[id].requestTime = StartTime
        /\ now > StartTime
        /\ result = "ok"
        /\ Len(lastEvents) = 2
        /\ lastEvents[2] = <<"CertificationApproved", id, c>>
        /\ certificates[c].issueDate = now
        /\ ~certificationRequests[other].isProcessed
        /\ certificationRequests[other].requestTime = StartTime

(***************************************************************************)
(* C15: the first certificate of a registry.  On a registry without        *)
(* requests a valid submission is stored under id 1 and logs               *)
(* CertificationRequested(1, applicant, profession).  While no certificate *)
(* has been issued, the owner or a flagged issuer processing request 1     *)
(* under the issuer name N logs CertificationApproved(1, 1), and           *)
(* verifyCertificate(1) then returns holder = the applicant, the           *)
(* profession of the request, isValid = true, issueDate = the time of      *)
(* processing, expiryDate = issueDate + 365 days and issuer = N.           *)
(***************************************************************************)
C15_FirstCertificate ==
    [][ /\ \A sub \in ValidSubmissions :
              (nextRequestId = 1 /\ Requested(sub)) =>
                  /\ result' = "ok"
                  /\ lastEvents' =
                         << <<"CertificationRequested", 1, sub[1], sub[2]>> >>
                  /\ certificationRequests'[1].applicant = sub[1]
                  /\ getRequestCount' = 1
        /\ \A sender \in Addresses, N \in IssuerNames :
              ( /\ nextCertificateId = 1
                /\ FlaggedOrOwner(sender)
                /\ 1 \in SubmittedIds
                /\ processCertificationRequest(sender, 1, N) ) =>
                  /\ result' = "ok"
                  /\ lastEvents'[Len(lastEvents')] =
                         <<"CertificationApproved", 1, 1>>
                  /\ verifyCertificate(1)'.status = "ok"
                  /\ SubSeq(verifyCertificate(1)'.ret, 1, 6) =
                         << certificationRequests[1].applicant,
                            certificationRequests[1].profession,
                            TRUE, now, now + 365 * DAY, N >> ]_vars

\* request 1 has just been processed as the first one: the log ends with
\* CertificationApproved(1, 1) and verifyCertificate(1) answers with the
\* applicant and an expiry date 365 days after the issue date
C15_Witness ==
    /\ result = "ok"
    /\ Len(lastEvents) = 2
    /\ lastEvents[2] = <<"CertificationApproved", 1, 1>>
    /\ nextCertificateId = 2
    /\ verifyCertificate(1).status = "ok"
    /\ verifyCertificate(1).ret[1] = certificationRequests[1].applicant
    /\ verifyCertificate(1).ret[4] = now
    /\ verifyCertificate(1).ret[5] = now + 31536000
    /\ verifyCertificate(1).ret[6] = "Acme Certifiers"

C17_ApprovalUnconditional ==
    /\ \A r \in DOMAIN certificationRequests :
          certificationRequests[r].isProcessed = certificationRequests[r].isApproved
    /\ \A i \in 1 .. Len(lastEvents) : lastEvents[i][1] # "CertificationRejected"
    /\ getCertificateCount =
          Cardinality({ r \in DOMAIN certificationRequests :
                          certificationRequests[r].isProcessed })

\* alice's request with score 80 and level 4 has just been approved while
\* her profession requires 90 and 5, and bob's request with level 0 was
\* approved although his profession requires level 4
C17_Witness ==
    \E a \in SubmittedIds, b \in SubmittedIds, c \in IssuedIds :
        /\ certificationRequests[a].applicant = Alice
        /\ certificationRequests[a].encryptedScore = <<"euint64", 80>>
        /\ minimumScoreRequirement[certificationRequests[a].profession] = 90
        /\ minimumLevelRequirement[certificationRequests[a].profession] = 5
        /\ Len(lastEvents) = 2
        /\ lastEvents[2] = <<"CertificationApproved", a, c>>
        /\ certificationRequests[a].isApproved
        /\ certificates[c].holder = Alice
        /\ certificationRequests[b].encryptedLevel = <<"euint8", 0>>
        /\ minimumLevelRequirement[certificationRequests[b].profession] = 4
        /\ certificationRequests[b].isApproved

(***************************************************************************)
(* C18: a successful processCertificationRequest(r) logs exactly two       *)
(* events in this order: CertificateIssued(c, holder, profession) and then *)
(* CertificationApproved(r, c), where holder and profession are those of   *)
(* request r and c is the value of nextCertificateId before the call.      *)
(***************************************************************************)
C18_IssuedThenApproved ==
    [][ \/ NothingHappened
        \/ \A sender \in Addresses, r \in IdInputs, name \in IssuerNames :
              processCertificationRequest(sender, r, name) =>
                  /\ r \in SubmittedIds
                  /\ lastEvents' =
                         << <<"CertificateIssued", nextCertificateId,
                              certificationRequests[r].applicant,
                              certificationRequests[r].profession>>,
                            <<"CertificationApproved", r, nextCertificateId>> >>
                  /\ nextCertificateId' = nextCertificateId + 1 ]_vars

\* the second request was processed first: request 1 has just been
\* approved with certificate 2, and the log holds the two events in order
C18_Witness ==
    /\ result = "ok"
    /\ 1 \in SubmittedIds
    /\ lastEvents =
           << <<"CertificateIssued", 2, certificationRequests[1].applicant,
                certificationRequests[1].profession>>,
              <<"CertificationApproved", 1, 2>> >>
    /\ nextCertificateId = 3

(***************************************************************************)
(* C19: events of the write operations.  A successful call of              *)
(* requestCertification, processCertificationRequest, revokeCertificate,   *)
(* authorizeIssuer or revokeIssuer logs at least one event, the one named  *)
(* after what it did; a successful call of extendCertificateValidity or    *)
(* setProfessionRequirements logs no event at all.                         *)
(***************************************************************************)
C19_SilentWrite ==
    \/ \E sender \in Addresses, id \in IdInputs, d \in AdditionalDays :
          extendCertificateValidity(sender, id, d)
    \/ \E sender \in Addresses, req \in RequirementInputs :
          setProfessionRequirements(sender, req[1], req[2], req[3])

C19_EventsOfWrites ==
    [][ \/ result' = "reverted"
        \/ /\ \A sub \in Submissions :
                  Requested(sub) =>
                      /\ Len(lastEvents') >= 1
                      /\ lastEvents'[1][1] = "CertificationRequested"
           /\ \A sender \in Addresses, id \in IdInputs, name \in IssuerNames :
                  processCertificationRequest(sender, id, name) =>
                      /\ Len(lastEvents') >= 1
                      /\ lastEvents'[Len(lastEvents')][1] = "CertificationApproved"
           /\ \A sender \in Addresses, id \in IdInputs, reason \in Reasons :
                  revokeCertificate(sender, id, reason) =>
                      /\ Len(lastEvents') >= 1
                      /\ lastEvents'[1][1] = "CertificateRevoked"
           /\ \A sender \in Addresses, issuer \in IssuerInputs,
                 org \in Organizations :
                  authorizeIssuer(sender, issuer, org) =>
                      /\ Len(lastEvents') >= 1
                      /\ lastEvents'[1][1] = "IssuerAuthorized"
           /\ \A sender \in Addresses, issuer \in IssuerInputs :
                  revokeIssuer(sender, issuer) =>
                      /\ Len(lastEvents') >= 1
                      /\ lastEvents'[1][1] = "IssuerRevoked"
           /\ C19_SilentWrite => lastEvents' = <<>> ]_vars

\* C19 as the specification words it: every successful call of one of the
\* seven write operations, the two above included, logs at least one event
C19_WriteCall ==
    \/ \E sub \in Submissions : Requested(sub)
    \/ \E sender \in Addresses, id \in IdInputs, name \in IssuerNames :
          processCertificationRequest(sender, id, name)
    \/ \E sender \in Addresses, id \in IdInputs, reason \in Reasons :
          revokeCertificate(sender, id, reason)
    \/ \E sender \in Addresses, issuer \in IssuerInputs, org \in Organizations :
          authorizeIssuer(sender, issuer, org)
    \/ \E sender \in Addresses, issuer \in IssuerInputs :
          revokeIssuer(sender, issuer)
    \/ C19_SilentWrite

C19_EveryWriteEmits ==
    [][ \/ result' = "reverted"
        \/ Len(lastEvents') >= 1
        \/ ~C19_WriteCall ]_vars

\* the requirements of a profession were replaced while a certificate
\* that can be extended exists, and the latest successful call left the
\* log empty
C19_Witness ==
    /\ result = "ok"
    /\ lastEvents = <<>>
    /\ getProfessionRequirements("Software Engineer") = <<90, 5>>
    /\ now = StartTime
    /\ \E id \in IssuedIds :
          /\ ValidUnexpired(id)
          /\ extendGuard(owner, id, 0) = "ok"

(***************************************************************************)
(* C20: the owner is the deploying identity after construction, and no     *)
(* step of any operation by any caller changes it.                         *)
(***************************************************************************)
C20_OwnerFixed ==
    /\ owner = Deployer
    /\ [][owner' = owner]_vars

\* after issuer grants, requirement updates, a submission, an approval, a
\* revocation and a refused call the owner is still the deployer
C20_Witness ==
    /\ owner = Deployer
    /\ authorizedIssuers[Bob]
    /\ authorizedIssuers[Deployer]
    /\ minimumScoreRequirement["Software Engineer"] = 90
    /\ nextRequestId > 1
    /\ nextCertificateId > 1
    /\ \E id \in IssuedIds : ~certificates[id].isValid
    /\ result = "reverted"

(***************************************************************************)
(* C27: the owner always passes the issuer guard, whatever its own issuer  *)
(* flag is.  In every reachable state, also after revokeIssuer(owner), the *)
(* owner passes the guards of processCertificationRequest on every pending *)
(* request, and those of revokeCertificate and extendCertificateValidity   *)
(* and both handle getters on every valid, unexpired certificate.          *)
(***************************************************************************)
C27_OwnerAlwaysIssuer ==
    /\ onlyAuthorizedIssuer(owner) = "ok"
    /\ \A r \in SubmittedIds :
          ~certificationRequests[r].isProcessed =>
              processGuard(owner, r) = "ok"
    /\ \A c \in IssuedIds :
          ValidUnexpired(c) =>
              /\ revokeGuard(owner, c) = "ok"
              /\ extendGuard(owner, c, 0) = "ok"
              /\ extendGuard(owner, c, 1) = "ok"
              /\ getEncryptedScore(owner, c).status = "ok"
              /\ getEncryptedLevel(owner, c).status = "ok"

\* the owner has just revoked its own issuer flag and holds no
\* certificate; a request is pending and a certificate is valid, and the
\* owner passes every issuer guard on them
C27_Witness ==
    /\ result = "ok"
    /\ lastEvents = << <<"IssuerRevoked", owner>> >>
    /\ ~authorizedIssuers[owner]
    /\ \E r \in SubmittedIds, c \in IssuedIds :
          /\ ~certificationRequests[r].isProcessed
          /\ processGuard(owner, r) = "ok"
          /\ ValidUnexpired(c)
          /\ certificates[c].holder # owner
          /\ revokeGuard(owner, c) = "ok"
          /\ extendGuard(owner, c, 1) = "ok"
          /\ getEncryptedScore(owner, c).status = "ok"
          /\ getEncryptedLevel(owner, c).status = "ok"

(***************************************************************************)
(* C28: failing the valid-and-unexpired guard is permanent.  Time never    *)
(* decreases.  An issued certificate that is revoked, or whose expiry date *)
(* the current time has reached, fails verifyCertificate, the guards of    *)
(* revokeCertificate and extendCertificateValidity and both handle getters *)
(* for every caller, and it is still revoked or expired after every step   *)
(* of every operation.                                                     *)
(***************************************************************************)
C28_InvalidForever ==
    /\ [](\A id \in IssuedIds :
            ~ValidUnexpired(id) =>
                /\ verifyCertificate(id).status # "ok"
                /\ \A sender \in Addresses :
                      /\ revokeGuard(sender, id) # "ok"
                      /\ \A d \in AdditionalDays :
                            extendGuard(sender, id, d) # "ok"
                      /\ getEncryptedScore(sender, id).status # "ok"
                      /\ getEncryptedLevel(sender, id).status # "ok")
    /\ [][ /\ now' >= now
           /\ \A id \in IssuedIds :
                 ~ValidUnexpired(id) => ~ValidUnexpired(id)' ]_vars

\* a certificate has reached its expiry date unrevoked; the owner is
\* refused by all five functions
C28_Witness ==
    \E b \in IssuedIds :
        /\ certificates[b].isValid
        /\ certificates[b].expiryDate = now
        /\ verifyCertificate(b).status = "Certificate expired"
        /\ extendGuard(owner, b, 1) = "Certificate expired"
        /\ revokeGuard(owner, b) = "Certificate expired"
        /\ getEncryptedScore(owner, b).status = "Certificate expired"
        /\ getEncryptedLevel(owner, b).status = "Certificate expired"

(***************************************************************************)
(* C29: the expiry date of a certificate never decreases.  No step lowers  *)
(* a stored expiry date; an extendCertificateValidity call whose day count *)
(* times 86400, or whose sum of that product and the old expiry date,      *)
(* leaves the unsigned word reverts and leaves the expiry date as it was   *)
(* (no wrap-around); a call with 0 days by the owner or a flagged issuer   *)
(* on a valid, unexpired certificate succeeds and changes nothing.         *)
(***************************************************************************)
C29_ExpiryNeverDecreases ==
    [][ /\ \A id \in DOMAIN certificates :
              /\ id \in DOMAIN certificates'
              /\ certificates'[id].expiryDate >= certificates[id].expiryDate
        /\ \/ NothingHappened
           \/ ~ \E sender \in Addresses, id \in IdInputs,
                    d \in {AddOverflowDays, MulOverflowDays} :
                    extendCertificateValidity(sender, id, d)
        /\ \/ result' = "ok" /\ registry' = registry
           \/ ~ \E sender \in Addresses, id \in IdInputs :
                    /\ FlaggedOrOwner(sender)
                    /\ ValidUnexpired(id)
                    /\ extendCertificateValidity(sender, id, 0) ]_vars

\* the latest call was refused, an extension by one day has moved one
\* expiry date up, and the day counts that overflow are refused on it
C29_Witness ==
    \E id \in IssuedIds :
        /\ ValidUnexpired(id)
        /\ certificates[id].expiryDate =
               certificates[id].issueDate + (ValidityDays + 1) * DAY
        /\ result = "reverted"
        /\ extendGuard(owner, id, MulOverflowDays) = "Panic(0x11)"
        /\ extendGuard(owner, id, AddOverflowDays) = "Panic(0x11)"
        /\ ~mulOverflows(AddOverflowDays, DAY)
        /\ extendGuard(owner, id, 0) = "ok"

(***************************************************************************)
(* C30: holder lists are append-only and partition the issued ids.  In     *)
(* every reachable state each id in 1 .. getCertificateCount() occurs      *)
(* exactly once in the list of certificates[id].holder and in no other     *)
(* list, the lists hold issued ids only and are strictly increasing; every *)
(* step keeps each list as a prefix of what it is afterwards, so no id is  *)
(* ever removed, revoked and expired certificates included.                *)
(***************************************************************************)
C30_Occurrences(list, id) ==
    Cardinality({ i \in 1 .. Len(list) : list[i] = id })

C30_HolderListsPartition ==
    /\ [](/\ \A id \in 1 .. getCertificateCount :
                \A h \in Addresses \cup {ZeroAddress} :
                    C30_Occurrences(getHolderCertificates(h), id) =
                        IF h = certificates[id].holder THEN 1 ELSE 0
          /\ \A h \in DOMAIN holderCertificates :
                /\ Range(holderCertificates[h]) \subseteq IssuedIds
                /\ \A i \in 1 .. Len(holderCertificates[h]) - 1 :
                      holderCertificates[h][i] < holderCertificates[h][i + 1])
    /\ [][ \A h \in DOMAIN holderCertificates :
              /\ h \in DOMAIN holderCertificates'
              /\ Len(holderCertificates'[h]) >= Len(holderCertificates[h])
              /\ SubSeq(holderCertificates'[h], 1, Len(holderCertificates[h]))
                     = holderCertificates[h] ]_vars

\* alice holds two certificates, listed in the order of issue, the first
\* of them revoked, and time has reached their expiry date, so neither can
\* be revoked any more
C30_Witness ==
    /\ getHolderCertificates(Alice) = <<1, 2>>
    /\ getHolderCertificates(Bob) = <<>>
    /\ ~certificates[1].isValid
    /\ certificates[2].isValid
    /\ certificates[2].expiryDate <= now
    /\ revokeGuard(owner, 1) = "Certificate not valid"
    /\ revokeGuard(owner, 2) = "Certificate expired"

(***************************************************************************)
(* Claims about the page                                                   *)
(***************************************************************************)
\* the four actions of the connected page
FourKinds == {"request", "admin", "verify", "certificates"}
\* a step of one of the four actions: its start or one of its continuations
StepOf(kind) ==
    CASE kind = "request" ->
             HandleCertificationRequest \/ RequestSent \/ RequestConfirmed
      [] kind = "admin" -> HandleProcessRequest \/ ProcessSent \/ ProcessConfirmed
      [] kind = "verify" -> HandleVerifyCertificate \/ VerifyReturned
      [] kind = "certificates" ->
             LoadMyCertificates \/ HolderCertificatesReturned \/ CertificateReturned
\* the messages only the given action sets
ErrorsOf(kind) ==
    CASE kind = "request" -> { RequestFailed(m) : m \in Messages }
      [] kind = "admin" -> { ProcessingFailed(m) : m \in Messages }
      [] kind = "verify" -> { VerificationFailed(m) : m \in Messages }
      [] kind = "certificates" -> { ErrorLoading }
SuccessOf(kind) ==
    CASE kind = "request" -> { RequestSubmitted }
      [] kind = "admin" -> { RequestProcessed }
      [] kind = "verify" -> { CertificateVerified }
      [] kind = "certificates" -> {}
\* a write that was sent and awaits its confirmation
Awaiting(kind) == tasks[At(kind, "wait")]
\* the step issues a write call to the contract
IssuesWrite == \E i \in 1 .. Len(issued') : issued'[i] \in WriteCalls

\* C21: each of the four actions of the page keeps its own status: while one
\* of them is in flight and shows its indicator, or shows its error or
\* success message, no step of another of the four actions changes that
\* indicator or that message.
C21_IndependentStatus ==
    [][ \A k \in FourKinds :
          \/ /\ ~ (loading = k /\ SuspendedOf(k) > 0)
             /\ error \notin ErrorsOf(k)
             /\ success \notin SuccessOf(k)
          \/ \A j \in FourKinds \ {k} :
                \/ ~ StepOf(j)
                \/ /\ loading = k /\ SuspendedOf(k) > 0 => loading' = k
                   /\ error \in ErrorsOf(k) => error' = error
                   /\ success \in SuccessOf(k) => success' = success ]_allVars

\* C22: while a submit-request or process-request transaction awaits its
\* confirmation, no step of the page issues a write call to the contract.
C22_NoPipelinedWrites ==
    [][ \/ Awaiting("request") + Awaiting("admin") = 0
        \/ ~ IssuesWrite ]_allVars

\* C23: a write action issues its one write call when it is triggered and
\* none afterwards; when the call or the confirmation fails it sets its
\* error message, leaves the success message and the form as they are and
\* clears the in-flight indicator; when the confirmation arrives it sets its
\* success message, clears its form and clears the in-flight indicator.
C23_Triggered ==
    /\ (HandleCertificationRequest /\ ~notConnected) =>
           /\ issued' = <<"requestCertification">>
           /\ SuspendedOf("request")' = SuspendedOf("request") + 1
    /\ (HandleProcessRequest /\ ~notConnected) =>
           /\ issued' = <<"processCertificationRequest">>
           /\ SuspendedOf("admin")' = SuspendedOf("admin") + 1
C23_Failed ==
    \A m \in Messages :
        /\ (requestSent(FALSE, m) \/ requestConfirmed(FALSE, m)) =>
               /\ error' = RequestFailed(m)
               /\ success' = success
               /\ requestForm' = requestForm
               /\ loading' = ""
               /\ issued' = <<>>
               /\ SuspendedOf("request")' = SuspendedOf("request") - 1
        /\ (processSent(FALSE, m) \/ processConfirmed(FALSE, m)) =>
               /\ error' = ProcessingFailed(m)
               /\ success' = success
               /\ adminForm' = adminForm
               /\ loading' = ""
               /\ issued' = <<>>
               /\ SuspendedOf("admin")' = SuspendedOf("admin") - 1
C23_Succeeded ==
    \A m \in Messages :
        /\ requestSent(TRUE, m) =>
               /\ issued' = <<>>
               /\ UNCHANGED << loading, error, success, requestForm >>
        /\ processSent(TRUE, m) =>
               /\ issued' = <<>>
               /\ UNCHANGED << loading, error, success, adminForm >>
        /\ requestConfirmed(TRUE, m) =>
               /\ success' = RequestSubmitted
               /\ requestForm' = ""
               /\ loading' = ""
               /\ issued' = <<>>
               /\ SuspendedOf("request")' = SuspendedOf("request") - 1
        /\ processConfirmed(TRUE, m) =>
               /\ success' = RequestProcessed
               /\ adminForm' = ""
               /\ loading' = ""
               /\ issued' = <<>>
               /\ SuspendedOf("admin")' = SuspendedOf("admin") - 1
C23_OneWriteNoRetry ==
    [][ \/ /\ SuspendedOf("request")' = SuspendedOf("request")
           /\ SuspendedOf("admin")' = SuspendedOf("admin")
           /\ tasks' = tasks
           /\ ~ IssuesWrite
        \/ (C23_Triggered /\ C23_Failed /\ C23_Succeeded) ]_allVars

\* a submit that failed: the error is shown, the form is still filled in and
\* the indicator is cleared
C23_Witness ==
    /\ error \in ErrorsOf("request")
    /\ requestForm = "entered"
    /\ loading = ""
    /\ issued = <<>>
    /\ SuspendedOf("request") = 0

\* C24: while the confirmation of a submitted write has not arrived, the
\* in-flight indicator of that action stays set: no step of the page during
\* which the write keeps waiting clears or replaces it.
C24_StalledKeepsIndicator ==
    [][ \A k \in {"request", "admin"} :
          \/ ~ (loading = k /\ Awaiting(k) > 0)
          \/ Awaiting(k)' < Awaiting(k)
          \/ loading' = k ]_allVars

\* the calls the four actions make through the contract handle
ActionCalls == WriteCalls \cup {"verifyCertificate", "getHolderCertificates"}
\* the wallet was marked disconnected and the handle of the last connect is
\* still stored
DisconnectedWithHandle == ~walletState.isConnected /\ contract # "null"
\* the page as window.location.reload() leaves it
Reloaded ==
    /\ ~walletState.isConnected
    /\ contract = "null"
    /\ loading = "" /\ error = "" /\ success = ""
    /\ requestForm = "" /\ adminForm = ""
    /\ tasks = NoTasks
    /\ mountPending

\* C25 as stated: while the wallet is marked disconnected and the contract
\* handle is still stored, no step of the page issues a call of one of the
\* four actions to the contract.
C25_NoCallWhileDisconnected ==
    [][ \/ ~DisconnectedWithHandle
        \/ \A i \in 1 .. Len(issued') : issued'[i] \notin ActionCalls ]_allVars

C25_Notified ==
    /\ \A accounts \in AccountLists :
          \/ ~handleAccountsChanged(accounts)
          \/ IF Len(accounts) = 0
               THEN /\ ~walletState'.isConnected
                    /\ UNCHANGED << contract, tasks, loading, error,
                                    requestForm, adminForm, mountPending >>
               ELSE Reloaded'
    /\ \A chainId \in ChainIds :
          \/ ~handleChainChanged(chainId)
          \/ IF chainId # SEPOLIA_CHAIN_ID
               THEN /\ ~walletState'.isConnected
                    /\ error' = PleaseSwitch
                    /\ UNCHANGED << contract, tasks, loading, requestForm,
                                    adminForm, mountPending >>
               ELSE Reloaded'
C25_NothingStarts ==
    \/ walletState.isConnected
    \/ /\ \A k \in FourKinds : SuspendedOf(k)' <= SuspendedOf(k)
       /\ ~IssuesWrite
       /\ \A i \in 1 .. Len(issued') :
             issued'[i] \in ActionCalls =>
                 /\ issued' = <<"verifyCertificate">>
                 /\ SuspendedOf("certificates") > 0
                 /\ SuspendedOf("certificates")' = SuspendedOf("certificates")
                 /\ tasks[At("certificates", "getHolderCertificates")]'
                        <= tasks[At("certificates", "getHolderCertificates")]
       /\ walletState'.isConnected =>
             /\ success' = Connected
             /\ contract' # "null"
             /\ SuspendedOf("connection")' = SuspendedOf("connection") - 1

\* C25 (amended): a notification with a non-empty account list or with the
\* Sepolia chain id reloads the page; one with an empty list or another
\* chain id marks the wallet disconnected and keeps the contract handle and
\* the running tasks; while the wallet is marked disconnected none of the
\* four actions is started and no write is issued until a connect succeeds,
\* and the only calls of the four actions still issued are the
\* verifyCertificate calls of a loadMyCertificates that was already running.
C25_NoActionStartsWhileDisconnected ==
    [][ C25_Notified /\ C25_NothingStarts ]_allVars

\* disconnected by a notification, handle still stored, and the loop of
\* loadMyCertificates has just issued its next verifyCertificate
C25_Witness ==
    /\ DisconnectedWithHandle
    /\ ~mountPending
    /\ issued = <<"verifyCertificate">>
    /\ SuspendedOf("certificates") > 0

\* positions of connectWallet after the chain was checked
PastChainCheck ==
    tasks[At("connection", "getBalance")]
        + tasks[At("connection", "authorizedIssuers")]
        + tasks[At("connection", "owner")]
\* what the catch and the finally of connectWallet leave behind
C26_Aborted(m) ==
    /\ ~walletState'.isConnected
    /\ error' = m
    /\ contract' = contract
    /\ loading' = ""
    /\ issued' = <<>>
    /\ SuspendedOf("connection")' = SuspendedOf("connection") - 1
    /\ PastChainCheck' = PastChainCheck
C26_SwitchFlow ==
    \A m \in Messages :
        /\ \A chainId \in NetworkIds \ {Sepolia} :
              getNetwork(TRUE, chainId, m) =>
                  /\ issued' = <<"wallet_switchEthereumChain">>
                  /\ tasks'[At("connection", "wallet_switchEthereumChain")] =
                         tasks[At("connection", "wallet_switchEthereumChain")] + 1
                  /\ PastChainCheck' = PastChainCheck
        /\ switchToSepolia(FALSE, UnrecognizedChain, m) =>
              /\ issued' = <<"wallet_addEthereumChain">>
              /\ tasks'[At("connection", "wallet_addEthereumChain")] =
                     tasks[At("connection", "wallet_addEthereumChain")] + 1
              /\ PastChainCheck' = PastChainCheck
              /\ UNCHANGED << walletState, contract, loading, error, success >>
        /\ \A code \in ErrorCodes \ {UnrecognizedChain} :
              switchToSepolia(FALSE, code, m) => C26_Aborted(m)
        /\ addEthereumChain(FALSE, m) => C26_Aborted(m)
C26_ConnectedAfterCheck ==
    /\ PastChainCheck' > PastChainCheck =>
          \E ok \in {TRUE}, m \in Messages, code \in ErrorCodes :
              \/ getNetwork(ok, Sepolia, m)
              \/ switchToSepolia(ok, code, m)
              \/ addEthereumChain(ok, m)
    /\ (~walletState.isConnected /\ walletState'.isConnected) =>
          /\ PastChainCheck' = PastChainCheck - 1
          /\ contract' # "null"
          /\ loading' = ""

C31_CertificateCopiesRequest ==
    [][ \/ nextCertificateId' = nextCertificateId
        \/ \E sender \in Addresses, r \in SubmittedIds, name \in IssuerNames :
              /\ processCertificationRequest(sender, r, name)
              /\ result' = "ok"
              /\ LET c == certificates'[nextCertificateId]
                     q == certificationRequests[r]
                 IN  /\ c.holder = q.applicant
                     /\ c.profession = q.profession
                     /\ c.encryptedScore = q.encryptedScore
                     /\ c.encryptedLevel = q.encryptedLevel
                     /\ c.encryptedScore = certificationRequests'[r].encryptedScore
                     /\ c.encryptedLevel = certificationRequests'[r].encryptedLevel
                     /\ c.issuer = name ]_vars

\* a certificate of Alice, who cannot process requests herself, was just
\* minted from her request by the owner or by Bob
C31_Witness ==
    /\ Len(lastEvents) = 2
    /\ lastEvents[1][1] = "CertificateIssued"
    /\ LET c == certificates[lastEvents[1][2]]
       IN  /\ c.holder = Alice
           /\ c.profession = "Software Engineer"
           /\ c.encryptedScore = asEuint64(80)
           /\ c.encryptedLevel = asEuint8(4)
           /\ c.issuer \in IssuerNames
    /\ ~authorizedIssuers[Alice]

(***************************************************************************)
(* C32: pending requests can be processed in any order, and certificate    *)
(* ids follow the order of processing.  In every state, for every          *)
(* submitted request r that is not processed yet and every caller that is  *)
(* the owner or a flagged issuer, the guard of processCertificationRequest *)
(* passes, whatever the state of the other requests; and such a call goes  *)
(* through, leaves every other request as it was and logs                  *)
(* CertificationApproved(r, id) with id the certificate counter before the *)
(* call, which need not be r.                                              *)
(***************************************************************************)
C32_Pending(r) == r \in SubmittedIds /\ ~certificationRequests[r].isProcessed
C32_PendingProcessable ==
    \A r \in IdInputs, sender \in Addresses :
        (C32_Pending(r) /\ FlaggedOrOwner(sender)) =>
            processGuard(sender, r) = "ok"
C32_ProcessedInCallOrder ==
    \A r \in IdInputs, sender \in Addresses, name \in IssuerNames :
        \/ ~C32_Pending(r)
        \/ ~FlaggedOrOwner(sender)
        \/ ~processCertificationRequest(sender, r, name)
        \/ /\ result' = "ok"
           /\ certificationRequests'[r].isProcessed
           /\ \A other \in SubmittedIds \ {r} :
                 certificationRequests'[other] = certificationRequests[other]
           /\ nextCertificateId \in DOMAIN certificates'
           /\ lastEvents'[Len(lastEvents')] =
                  <<"CertificationApproved", r, nextCertificateId>>
C32_AnyOrder ==
    []C32_PendingProcessable /\ [][C32_ProcessedInCallOrder]_vars

\* the second request was processed first: it has certificate 1 while the
\* first request is still pending
C32_Witness ==
    /\ nextRequestId = 3
    /\ ~certificationRequests[1].isProcessed
    /\ certificationRequests[2].isProcessed
    /\ Len(lastEvents) = 2
    /\ lastEvents[2] = <<"CertificationApproved", 2, 1>>
    /\ certificates[1].holder = certificationRequests[2].applicant

(***************************************************************************)
(* C33: the certificate guard reports an invalid id exactly for the ids    *)
(* that were never issued.  In every state and for every id that is 0 or   *)
(* greater than getCertificateCount(), verifyCertificate, both handle      *)
(* getters and, for a caller that passes the issuer guard, revoke and      *)
(* extend fail with "Invalid certificate ID"; and whenever one of them     *)
(* fails with "Certificate not valid" the id is that of an issued          *)
(* certificate whose isValid flag was cleared.                             *)
(***************************************************************************)
C33_NeverIssued(id) == id = 0 \/ id > getCertificateCount
\* the outcomes of the five guarded operations for one id
C33_Outcomes(id) ==
    { verifyCertificate(id).status }
    \cup { getEncryptedScore(sender, id).status : sender \in Addresses }
    \cup { getEncryptedLevel(sender, id).status : sender \in Addresses }
    \cup { revokeGuard(sender, id) :
               sender \in { a \in Addresses : FlaggedOrOwner(a) } }
    \cup { extendGuard(sender, id, 0) :
               sender \in { a \in Addresses : FlaggedOrOwner(a) } }
C33_InvalidIdExactlyUnissued ==
    \A id \in IdInputs :
        /\ C33_NeverIssued(id) => C33_Outcomes(id) = {"Invalid certificate ID"}
        /\ "Certificate not valid" \in C33_Outcomes(id) =>
               id \in IssuedIds /\ ~certificates[id].isValid

(***************************************************************************)
(* C34: issuer authorization is a flag per identity, written only by the   *)
(* owner, and the last write wins.  The flags change only in a successful  *)
(* authorizeIssuer or revokeIssuer call of the owner; authorizeIssuer(x)   *)
(* leaves x flagged and revokeIssuer(x) leaves x unflagged whatever the    *)
(* flag was, touching no other flag, and repeating either changes nothing  *)
(* in the registry; revokeIssuer leaves every certificate as it was; and   *)
(* in every state an identity that is neither flagged nor the owner is     *)
(* refused by processing, revoke and extend for every id and by both       *)
(* handle getters for every certificate it does not hold.                  *)
(***************************************************************************)
C34_OnlyOwnerWrites ==
    \/ authorizedIssuers' = authorizedIssuers
    \/ /\ result' = "ok"
       /\ \E x \in IssuerInputs :
             \/ revokeIssuer(owner, x)
             \/ \E org \in Organizations : authorizeIssuer(owner, x, org)
C34_LastWriteWins ==
    \A x \in IssuerInputs :
        /\ \/ \A org \in Organizations : ~authorizeIssuer(owner, x, org)
           \/ /\ authorizedIssuers' = [authorizedIssuers EXCEPT ![x] = TRUE]
              /\ authorizedIssuers[x] => registry' = registry
        /\ \/ ~revokeIssuer(owner, x)
           \/ /\ authorizedIssuers' = [authorizedIssuers EXCEPT ![x] = FALSE]
              /\ ~authorizedIssuers[x] => registry' = registry
              /\ certificates' = certificates
C34_UnflaggedRefused ==
    \A x \in Addresses :
        (x # owner /\ ~authorizedIssuers[x]) =>
            \A id \in IdInputs :
                /\ processGuard(x, id) = "Not authorized issuer"
                /\ revokeGuard(x, id) = "Not authorized issuer"
                /\ \A d \in AdditionalDays :
                      extendGuard(x, id, d) = "Not authorized issuer"
                /\ cert(id).holder # x =>
                      /\ getEncryptedScore(x, id).status # "ok"
                      /\ getEncryptedLevel(x, id).status # "ok"
C34_IssuerFlag ==
    []C34_UnflaggedRefused /\ [][C34_OnlyOwnerWrites /\ C34_LastWriteWins]_vars

\* Bob has just lost his flag while a valid certificate of Alice exists,
\* which the owner or Bob minted
C34_Witness ==
    /\ lastEvents = << <<"IssuerRevoked", Bob>> >>
    /\ ~authorizedIssuers[Bob]
    /\ \E id \in IssuedIds :
          /\ certificates[id].holder = Alice
          /\ ValidUnexpired(id)
          /\ getEncryptedScore(Bob, id).status = "Not authorized to view score"

(***************************************************************************)
(* C35: profession requirements.  A fresh registry returns (75,3) for      *)
(* "Software Engineer", (80,4) for "Data Scientist", (85,4) for            *)
(* "Cybersecurity Specialist", (70,3) for "Project Manager" and (0,0) for  *)
(* every other label; a successful setProfessionRequirements(p, s, l)      *)
(* makes getProfessionRequirements(p) return (s, l) and leaves the pair of *)
(* every other label and the rest of the registry as they were; and no     *)
(* other step changes what getProfessionRequirements returns.              *)
(***************************************************************************)
\* labels that are read: the ones of the tables and one that was never written
C35_Labels == Professions \cup {"Nurse"}
C35_Defaults ==
    /\ getProfessionRequirements("Software Engineer") = <<75, 3>>
    /\ getProfessionRequirements("Data Scientist") = <<80, 4>>
    /\ getProfessionRequirements("Cybersecurity Specialist") = <<85, 4>>
    /\ getProfessionRequirements("Project Manager") = <<70, 3>>
    /\ \A p \in C35_Labels \ {"Software Engineer", "Data Scientist",
                              "Cybersecurity Specialist", "Project Manager"} :
          getProfessionRequirements(p) = <<0, 0>>
C35_Written(p, s, l) ==
    /\ result' = "ok"
    /\ getProfessionRequirements(p)' = <<s, l>>
    /\ \A q \in C35_Labels \ {p} :
          getProfessionRequirements(q)' = getProfessionRequirements(q)
    /\ UNCHANGED << owner, nextCertificateId, nextRequestId, certificates,
                    holderCertificates, certificationRequests,
                    authorizedIssuers, acl >>
C35_LastWritten ==
    \/ \E p \in RequirementLabels, r \in RequirementPairs :
          /\ setProfessionRequirements(owner, p, r[1], r[2])
          /\ C35_Written(p, r[1], r[2])
    \/ /\ \A p \in RequirementLabels, r \in RequirementPairs :
             ~setProfessionRequirements(owner, p, r[1], r[2])
       /\ \A q \in C35_Labels :
             getProfessionRequirements(q)' = getProfessionRequirements(q)
C35_Requirements == C35_Defaults /\ [][C35_LastWritten]_vars

\* both labels were written, "Software Engineer" more than once, and the
\* labels that were not written still have their defaults
C35_Witness ==
    /\ getProfessionRequirements("Software Engineer") = <<0, 0>>
    /\ getProfessionRequirements("Chef") = <<60, 2>>
    /\ getProfessionRequirements("Data Scientist") = <<80, 4>>
    /\ getProfessionRequirements("Nurse") = <<0, 0>>
    /\ result = "ok"

(***************************************************************************)
(* C36: the access lists of the handles only grow.  No step removes an     *)
(* entry from an access list (revokeCertificate and revokeIssuer           *)
(* included); a successful submission leaves the registry itself and the   *)
(* applicant on the lists of both new handles; and a step that mints a     *)
(* certificate leaves its holder on the lists of both of its handles.      *)
(***************************************************************************)
C36_Granted(list, score, level, who) ==
    << score, who >> \in list /\ << level, who >> \in list
C36_GrantsOnlyGrow ==
    [][ /\ acl \subseteq acl'
        /\ \A sub \in ValidSubmissions :
              \/ ~Requested(sub)
              \/ /\ result' = "ok"
                 /\ LET q == certificationRequests'[nextRequestId]
                    IN  /\ q.applicant = sub[1]
                        /\ C36_Granted(acl', q.encryptedScore, q.encryptedLevel,
                                       ThisContract)
                        /\ C36_Granted(acl', q.encryptedScore, q.encryptedLevel,
                                       sub[1])
        /\ \/ nextCertificateId' = nextCertificateId
           \/ LET c == certificates'[nextCertificateId]
              IN  C36_Granted(acl', c.encryptedScore, c.encryptedLevel, c.holder)
      ]_vars

\* a certificate was revoked and Bob's flag was cleared: holder and registry
\* are still on the lists of both handles of the certificate
C36_Witness ==
    /\ lastEvents = << <<"IssuerRevoked", Bob>> >>
    /\ \E id \in IssuedIds :
          LET c == certificates[id]
          IN  /\ ~c.isValid
              /\ c.holder = Bob
              /\ C36_Granted(acl, c.encryptedScore, c.encryptedLevel, c.holder)
              /\ C36_Granted(acl, c.encryptedScore, c.encryptedLevel, ThisContract)

(***************************************************************************)
(* C37: emergencyPause pauses nothing.  Called by anyone but the owner it  *)
(* reverts; called by the owner it goes through, logs nothing and leaves   *)
(* the whole registry as it was, so that submission, processing,           *)
(* verification, revocation, extension and the handle reads answer every   *)
(* caller and every id after the call as they did before it.               *)
(***************************************************************************)
C37_SameAnswers ==
    \A sender \in Addresses, id \in IdInputs :
        /\ processGuard(sender, id)' = processGuard(sender, id)
        /\ revokeGuard(sender, id)' = revokeGuard(sender, id)
        /\ \A d \in AdditionalDays :
              extendGuard(sender, id, d)' = extendGuard(sender, id, d)
        /\ verifyCertificate(id)' = verifyCertificate(id)
        /\ getEncryptedScore(sender, id)' = getEncryptedScore(sender, id)
        /\ getEncryptedLevel(sender, id)' = getEncryptedLevel(sender, id)
        /\ getHolderCertificates(sender)' = getHolderCertificates(sender)
C38_HolderList == getHolderCertificates(walletState.account)
C38_Ids(certs) == { certs[i].id : i \in DOMAIN certs }
\* entries that can be shown: every one has isValid = true and belongs to the
\* connected account's holder list, and they stand in holder-list order
C38_Shown(certs) ==
    /\ \A i \in DOMAIN certs :
         /\ certs[i].isValid
         /\ certs[i].id \in Range(C38_HolderList)
         /\ cert(certs[i].id).holder = walletState.account
    /\ \A i, j \in DOMAIN certs : i < j => certs[i].id < certs[j].id
    /\ \A i, j \in DOMAIN C38_HolderList :
         i < j => C38_HolderList[i] < C38_HolderList[j]
\* nothing that passes verifyCertificate is missing among the ids up to "last"
C38_NoneMissing(certs, last) ==
    \A id \in Range(C38_HolderList) :
        id <= last /\ verifyCertificate(id).status = "ok"
            => id \in C38_Ids(certs)
\* while the loop runs, the entries collected so far are the ones before the
\* id being verified, and the ids left are of the holder list
C38_Collecting ==
    \A p \in LoopPositions :
        \/ tasks[p] = 0
        \/ /\ C38_Shown(p[4])
           /\ C38_NoneMissing(p[4], Head(p[3]) - 1)
           /\ Range(p[3]) \subseteq Range(C38_HolderList)
           /\ loading = "certificates"
\* the step in which the holder list arrives: an empty list ends the action
\* with an empty display, any other list starts the loop with all its ids
C38_ListArrives ==
    LET p == At("certificates", "getHolderCertificates")
    IN  \/ tasks'[p] >= tasks[p]
        \/ /\ error' = error
           /\ IF C38_HolderList = <<>>
                THEN myCertificates' = <<>> /\ loading' = ""
                ELSE /\ tasks'[InLoop(C38_HolderList, <<>>)] > 0
                     /\ UNCHANGED << myCertificates, loading >>
\* the step in which the answer for one id arrives: the id is collected when
\* verifyCertificate answers and skipped when it reverts, the error message
\* stays as it was, and the loop goes on with the ids left or, after the
\* last id, shows what it collected and clears the in-flight indicator
C38_AnswerArrives ==
    \A p \in LoopPositions :
        \/ tasks'[p] >= tasks[p]
        \/ LET id == Head(p[3])
               passes == verifyCertificate(id).status = "ok"
               has == IF passes
                        THEN Append(p[4], [id |-> id, isValid |-> TRUE])
                        ELSE p[4]
           IN  /\ error' = error
               /\ IF Len(p[3]) > 1
                    THEN /\ tasks'[InLoop(Tail(p[3]), has)] > 0
                         /\ UNCHANGED << myCertificates, loading >>
                    ELSE /\ myCertificates' = has
                         /\ loading' = ""
                         /\ C38_Shown(has)
                         /\ C38_NoneMissing(has, id)
                         /\ \A e \in C38_Ids(p[4]) : e < id

\* C38: loadMyCertificates shows the connected account's certificates that
\* pass verifyCertificate when the page asks, in holder-list order: an id
\* whose verification reverts (revoked or expired) is skipped without
\* setting the error message and without ending the loop, every entry shown
\* has isValid = true, and the in-flight indicator is cleared at the end.
C38_ListShowsPassingCertificates ==
    /\ [](C38_Shown(myCertificates) /\ C38_Collecting)
    /\ [][C38_ListArrives /\ C38_AnswerArrives]_allVars

\* a finished load shows certificate 2 alone for an account that holds 1
\* and 2: certificate 1 is revoked and was skipped, and no error was set
C38_Witness ==
    /\ C38_HolderList = <<1, 2>>
    /\ ~cert(1).isValid
    /\ myCertificates = <<[id |-> 2, isValid |-> TRUE]>>
    /\ loading = ""
    /\ error = ""
    /\ Suspended = 0

\* C38 as first stated: when the action ends, the entries shown are exactly
\* the certificates of the connected account that pass verifyCertificate in
\* the state of the registry at that moment.
C38_ShowsCurrentlyPassing ==
    /\ [](C38_Shown(myCertificates) /\ C38_Collecting)
    /\ [][ /\ C38_ListArrives
           /\ C38_AnswerArrives
           /\ \/ ~(loading = "certificates" /\ loading' = "")
              \/ C38_Ids(myCertificates') =
                     { id \in Range(C38_HolderList) :
                           verifyCertificate(id).status = "ok" } ]_allVars

=============================================================================
